---- MODULE Spec2Model ----
(***************************************************************************)
(* Model of gusnet's unit conversion (src/gusnet/units.py) and of the      *)
(* enumerations it is keyed by (src/gusnet/elements.py).                   *)
(*                                                                         *)
(* Numbers.  The conversion factors are products, quotients and powers of  *)
(* decimal literals.  A number is kept in exact form as a sign and, for    *)
(* every prime of Primes, TWICE the exponent of that prime (so that the    *)
(* square root of the emitter rule is representable).  Multiplication,     *)
(* division and powers are exact; the rounding of IEEE doubles is not      *)
(* modelled.                                                               *)
(***************************************************************************)
EXTENDS Integers, Sequences, FiniteSets, TLC

VARIABLES
    self,      \* the Converter object, or None while none has been built
    call,      \* the last call made: op, parameter, value, source
    result,    \* how the last call ended: a return value or a raised exception
    arith,     \* the number system of the run: "exact" or "ieee"
    frames     \* the calls in progress of the callers sharing the object

vars == <<self, call, result, arith, frames>>

(***************************************************************************)
(* Bounds of the inputs.                                                   *)
(***************************************************************************)
MaxMantissa == 1
MaxExponent == 2

\* the callers that share one object
NCallers == 2

\* the items of a pattern
MaxItems == 2

\* the with-blocks that are open at a time
MaxDepth == 2

(***************************************************************************)
(* Exact arithmetic: a number is a sign and, for each prime, twice its     *)
(* exponent.                                                               *)
(***************************************************************************)
\* the primes dividing the mantissas of the literals of units.py
Primes == {2, 3, 5, 7, 11, 61, 127, 179, 593, 619, 1523, 13099, 86137, 331579, 454609}

Abs(n) == IF n < 0 THEN -n ELSE n

Sign(n) == IF n > 0 THEN 1 ELSE IF n < 0 THEN -1 ELSE 0

RECURSIVE Multiplicity(_, _)
Multiplicity(n, p) == IF n # 0 /\ n % p = 0 THEN 1 + Multiplicity(n \div p, p) ELSE 0

XZero == [sgn |-> 0, e |-> [p \in Primes |-> 0]]

\* the integer n, all of whose prime factors are in Primes
XWhole(n) == IF n = 0 THEN XZero
             ELSE [sgn |-> Sign(n), e |-> [p \in Primes |-> 2 * Multiplicity(Abs(n), p)]]

XPow10(k) == [sgn |-> 1, e |-> [p \in Primes |-> IF p \in {2, 5} THEN 2 * k ELSE 0]]

XMul(a, b) == IF a.sgn = 0 \/ b.sgn = 0 THEN XZero
              ELSE [sgn |-> a.sgn * b.sgn, e |-> [p \in Primes |-> a.e[p] + b.e[p]]]

\* a / b for b # 0
XDiv(a, b) == IF a.sgn = 0 THEN XZero
              ELSE [sgn |-> a.sgn * b.sgn, e |-> [p \in Primes |-> a.e[p] - b.e[p]]]

\* a ** (h/2) for a > 0: h = 1 is the square root, h = 6 the cube
XPowHalves(a, h) == [sgn |-> a.sgn, e |-> [p \in Primes |-> (a.e[p] * h) \div 2]]

\* the decimal literal m * 10^k
XFloat(m, k) == XMul(XWhole(m), XPow10(k))

(***************************************************************************)
(* Natural numbers of any size: little-endian sequences of limbs below     *)
(* Limb, without leading zero limbs (the empty sequence is 0).             *)
(***************************************************************************)
LimbBits == 15

Limb == 2 ^ LimbBits

RECURSIVE BNorm(_)
BNorm(s) == IF s = <<>> THEN <<>>
            ELSE IF s[Len(s)] = 0 THEN BNorm(SubSeq(s, 1, Len(s) - 1))
            ELSE s

RECURSIVE BFromInt(_)
BFromInt(n) == IF n = 0 THEN <<>> ELSE <<n % Limb>> \o BFromInt(n \div Limb)

BLimb(a, i) == IF i <= Len(a) THEN a[i] ELSE 0

RECURSIVE BAddC(_, _, _, _)
BAddC(a, b, i, c) ==
    IF i > Len(a) /\ i > Len(b) THEN (IF c = 0 THEN <<>> ELSE <<c>>)
    ELSE LET t == BLimb(a, i) + BLimb(b, i) + c
         IN  <<t % Limb>> \o BAddC(a, b, i + 1, t \div Limb)

BAdd(a, b) == BAddC(a, b, 1, 0)

RECURSIVE BSubC(_, _, _, _)
BSubC(a, b, i, borrow) ==
    IF i > Len(a) THEN <<>>
    ELSE LET t == a[i] - BLimb(b, i) - borrow
         IN  IF t < 0 THEN <<t + Limb>> \o BSubC(a, b, i + 1, 1)
             ELSE <<t>> \o BSubC(a, b, i + 1, 0)

\* a - b for a >= b
BSub(a, b) == BNorm(BSubC(a, b, 1, 0))

\* -1, 0, 1 as a < b, a = b, a > b
BCmp(a, b) ==
    IF Len(a) # Len(b) THEN (IF Len(a) < Len(b) THEN -1 ELSE 1)
    ELSE LET D == {i \in 1..Len(a) : a[i] # b[i]}
         IN  IF D = {} THEN 0
             ELSE LET i == CHOOSE i \in D : \A j \in D : j <= i
                  IN  IF a[i] < b[i] THEN -1 ELSE 1

RECURSIVE BMulSmallC(_, _, _, _)
BMulSmallC(a, k, i, c) ==
    IF i > Len(a) THEN (IF c = 0 THEN <<>> ELSE <<c>>)
    ELSE LET t == a[i] * k + c
         IN  <<t % Limb>> \o BMulSmallC(a, k, i + 1, t \div Limb)

\* a * k for 0 <= k <= Limb
BMulSmall(a, k) == IF k = 0 THEN <<>> ELSE BMulSmallC(a, k, 1, 0)

BShiftLimbs(a, n) == IF a = <<>> THEN <<>> ELSE [i \in 1..n |-> 0] \o a

RECURSIVE BMulAcc(_, _, _)
BMulAcc(a, b, i) ==
    IF i > Len(b) THEN <<>>
    ELSE BAdd(BShiftLimbs(BMulSmall(a, b[i]), i - 1), BMulAcc(a, b, i + 1))

BMul(a, b) == BMulAcc(a, b, 1)

RECURSIVE BPow10(_)
BPow10(k) == IF k = 0 THEN <<1>> ELSE BMulSmall(BPow10(k - 1), 10)

\* a * 2^s
BShl(a, s) == BShiftLimbs(BMulSmall(a, 2 ^ (s % LimbBits)), s \div LimbBits)

RECURSIVE BDivSmallC(_, _, _, _)
BDivSmallC(a, k, i, r) ==
    IF i = 0 THEN <<>>
    ELSE LET cur == r * Limb + a[i]
         IN  BDivSmallC(a, k, i - 1, cur % k) \o <<cur \div k>>

\* floor(a / 2^s)
BShr(a, s) ==
    IF s \div LimbBits >= Len(a) THEN <<>>
    ELSE LET top == SubSeq(a, s \div LimbBits + 1, Len(a))
         IN  BNorm(BDivSmallC(top, 2 ^ (s % LimbBits), Len(top), 0))

\* the number of bits of a
BBitLen(a) ==
    IF a = <<>> THEN 0
    ELSE LimbBits * (Len(a) - 1)
         + (CHOOSE k \in 1..LimbBits : 2 ^ (k - 1) <= a[Len(a)] /\ a[Len(a)] < 2 ^ k)

\* bit i of a, bit 0 the lowest
BBit(a, i) == (BLimb(a, i \div LimbBits + 1) \div 2 ^ (i % LimbBits)) % 2

BOdd(a) == BBit(a, 0) = 1

\* the greatest q below Limb with q * d <= r, found bit by bit from bit b down,
\* for 0 <= r < Limb * d
RECURSIVE BQuotientLimb(_, _, _, _)
BQuotientLimb(r, d, b, q) ==
    IF b < 0 THEN q
    ELSE IF BCmp(BMulSmall(d, q + 2 ^ b), r) <= 0 THEN BQuotientLimb(r, d, b - 1, q + 2 ^ b)
    ELSE BQuotientLimb(r, d, b - 1, q)

\* long division of n by d # 0, limb by limb from limb i down; q collects the
\* quotient limbs, r is the running remainder: <<quotient, remainder>>
RECURSIVE BDivStep(_, _, _, _, _)
BDivStep(n, d, i, q, r) ==
    IF i = 0 THEN <<BNorm(q), r>>
    ELSE LET r2 == BNorm(<<n[i]>> \o r)
             ql == BQuotientLimb(r2, d, LimbBits - 1, 0)
         IN  BDivStep(n, d, i - 1, <<ql>> \o q, BSub(r2, BMulSmall(d, ql)))

BDivMod(n, d) == BDivStep(n, d, Len(n), <<>>, <<>>)

(***************************************************************************)
(* IEEE 754 binary64, the float of Python: a finite double is sgn * m *    *)
(* 2^x with m below 2^53 (at least 2^52 unless x is the least exponent);   *)
(* an empty m is zero (sgn = 0) or an infinity (sgn # 0).  Every operation *)
(* rounds its exact result to the nearest double, ties to even.            *)
(***************************************************************************)
MantissaBits == 53

MinExponent == -1074

MaxExponent64 == 971

DZero == [sgn |-> 0, m |-> <<>>, x |-> 0]

DInf(sgn) == [sgn |-> sgn, m |-> <<>>, x |-> 0]

DNaN == [sgn |-> 0, m |-> <<>>, x |-> 1]

DIsFinite(a) == a.m # <<>> \/ a = DZero

\* a finite double from its parts: an empty significand is zero, an exponent
\* above the largest overflows to an infinity
DPack(sgn, m, x) ==
    IF m = <<>> THEN DZero
    ELSE IF x > MaxExponent64 THEN DInf(sgn)
    ELSE [sgn |-> sgn, m |-> m, x |-> x]

\* a rounded-up significand that has grown to 54 bits loses its last bit
DCarry(sgn, m, x) ==
    IF BBitLen(m) > MantissaBits THEN DPack(sgn, BShr(m, 1), x + 1) ELSE DPack(sgn, m, x)

\* round up: the dropped part is above half, or is half and the tie goes up
DAboveHalf(cmp, tie_up) == cmp > 0 \/ (cmp = 0 /\ tie_up)

\* q is n without its last shift bits: whether those bits round q up; a tie
\* goes up when something nonzero lies beyond n (sticky) or q is odd
DRoundsUp(n, shift, q, sticky) ==
    /\ shift > 0
    /\ DAboveHalf(BCmp(BSub(n, BShl(q, shift)), BShl(<<1>>, shift - 1)), sticky \/ BOdd(q))

DRoundShifted(sgn, n, shift, q, x, sticky) ==
    IF DRoundsUp(n, shift, q, sticky) THEN DCarry(sgn, BAdd(q, <<1>>), x)
    ELSE DCarry(sgn, q, x)

\* the exponent of the result for a significand of len bits at exponent x:
\* 53 bits are kept, fewer below the least exponent (subnormals)
DExponent(x, len) ==
    IF x + len - MantissaBits < MinExponent THEN MinExponent ELSE x + len - MantissaBits

DRoundTo(sgn, n, x, x1, sticky) ==
    IF x1 > x THEN DRoundShifted(sgn, n, x1 - x, BShr(n, x1 - x), x1, sticky)
    ELSE DPack(sgn, BShl(n, x - x1), x1)

\* the double nearest to sgn * (n + f) * 2^x, where n > 0 and 0 <= f < 1 is
\* nonzero exactly when sticky; with sticky, n has at least two bits more than
\* a significand
DRound(sgn, n, x, sticky) == DRoundTo(sgn, n, x, DExponent(x, BBitLen(n)), sticky)

\* the bits to scale a by for a / b to have at least 55 bits
DScale(lena, lenb) ==
    IF MantissaBits + 2 + lenb > lena THEN MantissaBits + 2 + lenb - lena ELSE 0

DRoundDivMod(sgn, qr, x) == DRound(sgn, qr[1], x, qr[2] # <<>>)

DRoundScaled(sgn, a, b, x, s) == DRoundDivMod(sgn, BDivMod(BShl(a, s), b), x - s)

\* the double nearest to sgn * (a / b) * 2^x, for a, b > 0
DRoundQuotient(sgn, a, b, x) == DRoundScaled(sgn, a, b, x, DScale(BBitLen(a), BBitLen(b)))

\* the decimal literal m * 10^k, correctly rounded
DFloat(m, k) ==
    IF m = 0 THEN DZero
    ELSE IF k >= 0 THEN DRound(Sign(m), BMul(BFromInt(Abs(m)), BPow10(k)), 0, FALSE)
    ELSE DRoundQuotient(Sign(m), BFromInt(Abs(m)), BPow10(-k), 0)

DMul(a, b) ==
    IF a = DNaN \/ b = DNaN THEN DNaN
    ELSE IF ~DIsFinite(a) \/ ~DIsFinite(b)
        THEN IF a = DZero \/ b = DZero THEN DNaN ELSE DInf(a.sgn * b.sgn)
    ELSE IF a = DZero \/ b = DZero THEN DZero
    ELSE DRound(a.sgn * b.sgn, BMul(a.m, b.m), a.x + b.x, FALSE)

\* a / b for b # 0
DDiv(a, b) ==
    IF a = DNaN \/ b = DNaN THEN DNaN
    ELSE IF ~DIsFinite(a) THEN (IF DIsFinite(b) THEN DInf(a.sgn * b.sgn) ELSE DNaN)
    ELSE IF ~DIsFinite(b) \/ a = DZero THEN DZero
    ELSE DRoundQuotient(a.sgn * b.sgn, a.m, b.m, a.x - b.x)

(***************************************************************************)
(* The arithmetic of the program, in the number system of the run.         *)
(***************************************************************************)
Float(m, k) == IF arith = "ieee" THEN DFloat(m, k) ELSE XFloat(m, k)

Whole(n) == IF arith = "ieee" THEN DFloat(n, 0) ELSE XWhole(n)

Mul(a, b) == IF arith = "ieee" THEN DMul(a, b) ELSE XMul(a, b)

Div(a, b) == IF arith = "ieee" THEN DDiv(a, b) ELSE XDiv(a, b)

\* a ** (h/2); pow is libm's, whose rounding IEEE 754 does not fix: exact runs only
PowHalves(a, h) == CASE arith = "exact" -> XPowHalves(a, h)

IsNumber(x) == DOMAIN x \in {{"sgn", "e"}, {"sgn", "m", "x"}}

IsZero(a) == a = XZero \/ a = DZero

(***************************************************************************)
(* Python values: enum members, None, plain strings.                       *)
(***************************************************************************)
None == [cls |-> "NoneType", name |-> "None"]

Str(s) == [cls |-> "str", name |-> s]

Member(c, n) == [cls |-> c, name |-> n]

FlowUnitNames == <<"LPS", "LPM", "MLD", "CMH", "CMD", "CFS", "GPM", "MGD", "IMGD", "AFD">>

FlowUnit == {Member("FlowUnit", FlowUnitNames[i]) : i \in DOMAIN FlowUnitNames}

MassUnit == {Member("MassUnit", n) : n \in {"MG", "UG"}}

HeadlossFormula ==
    {Member("HeadlossFormula", n) : n \in {"HAZEN_WILLIAMS", "DARCY_WEISBACH", "CHEZY_MANNING"}}

WallReactionOrder == {Member("WallReactionOrder", n) : n \in {"ZERO", "ONE"}}

\* class Parameter with the four length-like names given a value each
ParameterDecl_distinct_values ==
    << <<"LENGTH", 999>>, <<"ELEVATION">>, <<"HYDRAULIC_HEAD">>,
       <<"TANK_DIAMETER">>, <<"PRESSURE">>, <<"CONCENTRATION">>,
       <<"PIPE_DIAMETER">>, <<"FLOW">>, <<"VELOCITY">>, <<"UNIT_HEADLOSS">>,
       <<"POWER">>, <<"VOLUME">>, <<"EMITTER_COEFFICIENT">>,
       <<"ROUGHNESS_COEFFICIENT">>, <<"ENERGY">>, <<"REACTION_RATE">>,
       <<"BULK_REACTION_COEFFICIENT">>, <<"WALL_REACTION_COEFFICIENT">>,
       <<"SOURCE_MASS_INJECTION">>, <<"WATER_AGE">>, <<"UNITLESS">>,
       <<"FRACTION">>, <<"CURRENCY">> >>

\* class Parameter: a name with an explicit value, or a name alone for auto()
ParameterDecl ==
    << <<"LENGTH", 999>>, <<"ELEVATION", 999>>, <<"HYDRAULIC_HEAD", 999>>,
       <<"TANK_DIAMETER", 999>>, <<"PRESSURE">>, <<"CONCENTRATION">>,
       <<"PIPE_DIAMETER">>, <<"FLOW">>, <<"VELOCITY">>, <<"UNIT_HEADLOSS">>,
       <<"POWER">>, <<"VOLUME">>, <<"EMITTER_COEFFICIENT">>,
       <<"ROUGHNESS_COEFFICIENT">>, <<"ENERGY">>, <<"REACTION_RATE">>,
       <<"BULK_REACTION_COEFFICIENT">>, <<"WALL_REACTION_COEFFICIENT">>,
       <<"SOURCE_MASS_INJECTION">>, <<"WATER_AGE">>, <<"UNITLESS">>,
       <<"FRACTION">>, <<"CURRENCY">> >>

ParameterNames == {ParameterDecl[i][1] : i \in DOMAIN ParameterDecl}

\* the value of the i-th declared name: the explicit one, or auto() = last value + 1
RECURSIVE ParameterValue(_)
ParameterValue(i) ==
    IF Len(ParameterDecl[i]) = 2 THEN ParameterDecl[i][2]
    ELSE IF i = 1 THEN 1
    ELSE ParameterValue(i - 1) + 1

\* Enum aliasing: a name whose value was already declared IS the first member
\* declared with that value
ParameterMembers ==
    [n \in ParameterNames |->
        LET i == CHOOSE i \in DOMAIN ParameterDecl : ParameterDecl[i][1] = n
            first == CHOOSE k \in 1..i :
                        /\ ParameterValue(k) = ParameterValue(i)
                        /\ \A j \in 1..(k - 1) : ParameterValue(j) # ParameterValue(i)
        IN  Member("Parameter", ParameterDecl[first][1])]

\* Parameter.<n>
Parameter(n) == ParameterMembers[n]

Parameters == {Parameter(n) : n \in ParameterNames}

(***************************************************************************)
(* Results of a call.                                                      *)
(***************************************************************************)
Return(x) == [kind |-> "return", val |-> x]

Raise(exc, arg) == [kind |-> "raise", exc |-> exc, arg |-> arg]

Returned(r) == r.kind = "return"

Raised(r) == r.kind = "raise"

(***************************************************************************)
(* class Converter                                                         *)
(***************************************************************************)
\* the set with one of its members forgotten
_TRADITIONAL_FLOW_UNITS_without_AFD ==
    {Member("FlowUnit", n) : n \in {"CFS", "GPM", "MGD", "IMGD"}}

_TRADITIONAL_FLOW_UNITS ==
    {Member("FlowUnit", n) : n \in {"CFS", "GPM", "MGD", "IMGD", "AFD"}}

\* the if/elif chain of Converter._flow_unit_factor
FlowUnitRules(flow_units) ==
    IF flow_units = Member("FlowUnit", "CFS") THEN Return(Float(283168466, -10))
    ELSE IF flow_units = Member("FlowUnit", "GPM")
        \* 0.003785411784 / 60.0; the mantissa 3785411784 = 8 * 473176473
        THEN Return(Div(Mul(Whole(8), Float(473176473, -12)), Whole(60)))
    ELSE IF flow_units = Member("FlowUnit", "MGD")
        THEN Return(Div(Mul(Float(1, 6), Mul(Whole(8), Float(473176473, -12))), Whole(86400)))
    ELSE IF flow_units = Member("FlowUnit", "IMGD")
        THEN Return(Div(Mul(Float(1, 6), Float(454609, -8)), Whole(86400)))
    ELSE IF flow_units = Member("FlowUnit", "AFD")
        THEN Return(Div(Float(123348184, -5), Whole(86400)))
    ELSE IF flow_units = Member("FlowUnit", "LPS") THEN Return(Float(1, -3))
    ELSE IF flow_units = Member("FlowUnit", "LPM") THEN Return(Div(Float(1, -3), Whole(60)))
    ELSE IF flow_units = Member("FlowUnit", "MLD")
        THEN Return(Div(Mul(Float(1, 6), Float(1, -3)), Whole(86400)))
    ELSE IF flow_units = Member("FlowUnit", "CMH") THEN Return(Div(Whole(1), Whole(3600)))
    ELSE IF flow_units = Member("FlowUnit", "CMD") THEN Return(Div(Whole(1), Whole(86400)))
    ELSE Raise("ValueError", flow_units)

\* a slip in the table: CMH read as cubic metres per minute
_flow_unit_factor_cmh_per_minute(flow_units) ==
    IF flow_units = Member("FlowUnit", "CMH") THEN Return(Div(Whole(1), Whole(60)))
    ELSE FlowUnitRules(flow_units)

_flow_unit_factor(flow_units) == FlowUnitRules(flow_units)

_mass_unit_factor(mass_units) ==
    IF mass_units = Member("MassUnit", "MG") THEN Return(Float(1, -6))
    ELSE IF mass_units = Member("MassUnit", "UG") THEN Return(Float(1, -9))
    ELSE Raise("ValueError", mass_units)

\* the default of wall_reaction_order taken for order zero
wall_reaction_order_default_zero == Member("WallReactionOrder", "ZERO")

\* the defaults of Converter.__init__'s optional parameters
mass_unit_default == Member("MassUnit", "MG")

wall_reaction_order_default == Member("WallReactionOrder", "ONE")

\* the parameters of Converter.__init__ as bound by a call with positional
\* arguments c: a parameter without argument takes its default
Arguments(c) ==
    <<c[1], c[2],
      IF Len(c) >= 3 THEN c[3] ELSE mass_unit_default,
      IF Len(c) >= 4 THEN c[4] ELSE wall_reaction_order_default>>

\* a constructor that stores its arguments and derives the mass factor only
\* when the mass unit is known
__init__unchecked_mass(flow_units, headloss_formula, mass_unit, wall_reaction_order) ==
    LET fuf == _flow_unit_factor(flow_units)
        muf == _mass_unit_factor(mass_unit)
    IN  IF Raised(fuf) THEN fuf
        ELSE Return([flow_units |-> flow_units,
                     headloss_formula |-> headloss_formula,
                     mass_unit |-> mass_unit,
                     wall_reaction_order |-> wall_reaction_order,
                     traditional |-> flow_units \in _TRADITIONAL_FLOW_UNITS,
                     flow_unit_factor |-> fuf.val,
                     mass_unit_factor |-> IF Raised(muf) THEN Float(1, -6) ELSE muf.val])

\* Converter.__init__: the object it produces, or the exception it raises
__init__(flow_units, headloss_formula, mass_unit, wall_reaction_order) ==
    LET fuf == _flow_unit_factor(flow_units)
        muf == _mass_unit_factor(mass_unit)
    IN  IF Raised(fuf) THEN fuf
        ELSE IF Raised(muf) THEN muf
        ELSE Return([flow_units |-> flow_units,
                     headloss_formula |-> headloss_formula,
                     mass_unit |-> mass_unit,
                     wall_reaction_order |-> wall_reaction_order,
                     traditional |-> flow_units \in _TRADITIONAL_FLOW_UNITS,
                     flow_unit_factor |-> fuf.val,
                     mass_unit_factor |-> muf.val])

P(n) == Parameter(n)

\* the if/elif chain of Converter._factor: the factor of `parameter`, or the
\* exception raised
FactorRules(conv, parameter) ==
    IF parameter = P("LENGTH")
        THEN IF conv.traditional THEN Return(Float(3048, -4)) ELSE Return(Float(1, 0))
    ELSE IF parameter = P("FLOW") THEN Return(conv.flow_unit_factor)
    ELSE IF parameter = P("UNITLESS") THEN Return(Float(1, 0))
    ELSE IF parameter = P("EMITTER_COEFFICIENT")
        THEN IF conv.traditional
             THEN Return(Mul(conv.flow_unit_factor,
                             PowHalves(Div(Float(4333, -4), Float(3048, -4)), 1)))
             ELSE Return(conv.flow_unit_factor)
    ELSE IF parameter = P("PIPE_DIAMETER")
        THEN IF conv.traditional THEN Return(Float(254, -4)) ELSE Return(Float(1, -3))
    ELSE IF parameter = P("ROUGHNESS_COEFFICIENT")
        THEN IF conv.headloss_formula = Member("HeadlossFormula", "DARCY_WEISBACH")
             THEN IF conv.traditional
                  THEN Return(Mul(Float(1, -3), Float(3048, -4)))
                  ELSE Return(Float(1, -3))
             ELSE Return(Float(1, 0))
    ELSE IF parameter = P("UNIT_HEADLOSS") THEN Return(Float(1, -3))
    ELSE IF parameter = P("VELOCITY")
        THEN IF conv.traditional THEN Return(Float(3048, -4)) ELSE Return(Float(1, 0))
    ELSE IF parameter = P("ENERGY") THEN Return(Float(3600000, 0))
    ELSE IF parameter = P("POWER")
        THEN IF conv.traditional THEN Return(Float(745699872, -6)) ELSE Return(Float(1000, 0))
    ELSE IF parameter = P("PRESSURE")
        THEN IF conv.traditional
             THEN Return(Div(Float(3048, -4), Float(4333, -4)))
             ELSE Return(Float(1, 0))
    ELSE IF parameter = P("VOLUME")
        THEN IF conv.traditional
             THEN Return(PowHalves(Float(3048, -4), 6))
             ELSE Return(Float(1, 0))
    ELSE IF parameter = P("CONCENTRATION")
        THEN Return(Div(conv.mass_unit_factor, Float(1, -3)))
    ELSE IF parameter = P("REACTION_RATE")
        THEN Return(Div(Div(conv.mass_unit_factor, Float(1, -3)), Mul(Whole(24), Whole(3600))))
    ELSE IF parameter = P("SOURCE_MASS_INJECTION")
        THEN Return(Div(conv.mass_unit_factor, Float(60, 0)))
    ELSE IF parameter = P("BULK_REACTION_COEFFICIENT")
        THEN Return(Div(Whole(1), Float(86400, 0)))
    ELSE IF /\ parameter = P("WALL_REACTION_COEFFICIENT")
            /\ conv.wall_reaction_order = Member("WallReactionOrder", "ZERO")
        THEN IF conv.traditional
             THEN Return(Div(Mul(conv.mass_unit_factor, Float(92903, -6)), Float(86400, 0)))
             ELSE Return(Div(conv.mass_unit_factor, Float(86400, 0)))
    ELSE IF /\ parameter = P("WALL_REACTION_COEFFICIENT")
            /\ conv.wall_reaction_order = Member("WallReactionOrder", "ONE")
        THEN IF conv.traditional
             THEN Return(Div(Float(3048, -4), Float(86400, 0)))
             ELSE Return(Div(Float(1, 0), Float(86400, 0)))
    ELSE IF parameter = P("WATER_AGE") THEN Return(Float(3600, 0))
    ELSE IF parameter \in {P("FRACTION"), P("CURRENCY")} THEN Return(Float(1, 0))
    ELSE Raise("ValueError", parameter)

\* slips the factor table could have, each differing from FactorRules in one rule
\* the last branch (FRACTION, CURRENCY) forgotten
_factor_without_last_branch(conv, parameter) ==
    IF parameter \in {P("FRACTION"), P("CURRENCY")} THEN Raise("ValueError", parameter)
    ELSE FactorRules(conv, parameter)

\* the roughness rule applied whatever the headloss formula
_factor_roughness_any_formula(conv, parameter) ==
    IF parameter = P("ROUGHNESS_COEFFICIENT")
        THEN IF conv.traditional
             THEN Return(Mul(Float(1, -3), Float(3048, -4)))
             ELSE Return(Float(1, -3))
    ELSE FactorRules(conv, parameter)

\* the wall reaction order ignored: the order-one rule for every order
_factor_wall_order_ignored(conv, parameter) ==
    IF parameter = P("WALL_REACTION_COEFFICIENT")
        THEN IF conv.traditional
             THEN Return(Div(Float(3048, -4), Float(86400, 0)))
             ELSE Return(Div(Float(1, 0), Float(86400, 0)))
    ELSE FactorRules(conv, parameter)

\* the bulk reaction coefficient scaled by the foot when traditional
_factor_bulk_by_family(conv, parameter) ==
    IF parameter = P("BULK_REACTION_COEFFICIENT") /\ conv.traditional
        THEN Return(Div(Float(3048, -4), Float(86400, 0)))
    ELSE FactorRules(conv, parameter)

\* the pressure ratio upside down
_factor_pressure_inverted(conv, parameter) ==
    IF parameter = P("PRESSURE") /\ conv.traditional
        THEN Return(Div(Float(4333, -4), Float(3048, -4)))
    ELSE FactorRules(conv, parameter)

\* an unknown parameter defaulted to 1.0 instead of raising
_factor_defaulting(conv, parameter) ==
    LET r == FactorRules(conv, parameter)
    IN  IF Raised(r) THEN Return(Float(1, 0)) ELSE r

\* the concentration taken per cubic foot when traditional
_factor_concentration_by_family(conv, parameter) ==
    IF parameter = P("CONCENTRATION") /\ conv.traditional
        THEN Return(Div(conv.mass_unit_factor, Mul(Float(1, -3), PowHalves(Float(3048, -4), 6))))
    ELSE FactorRules(conv, parameter)

\* the emitter coefficient scaled by the root of feet per psi
_factor_emitter_root_inverted(conv, parameter) ==
    IF parameter = P("EMITTER_COEFFICIENT") /\ conv.traditional
        THEN Return(Mul(conv.flow_unit_factor,
                        PowHalves(Div(Float(3048, -4), Float(4333, -4)), 1)))
    ELSE FactorRules(conv, parameter)

\* a wall reaction order that is not ZERO taken for order one
_factor_wall_order_else_one(conv, parameter) ==
    IF /\ parameter = P("WALL_REACTION_COEFFICIENT")
       /\ conv.wall_reaction_order # Member("WallReactionOrder", "ZERO")
        THEN IF conv.traditional
             THEN Return(Div(Float(3048, -4), Float(86400, 0)))
             ELSE Return(Div(Float(1, 0), Float(86400, 0)))
    ELSE FactorRules(conv, parameter)

\* the cubic foot taken for the square foot
_factor_volume_as_area(conv, parameter) ==
    IF parameter = P("VOLUME") /\ conv.traditional
        THEN Return(PowHalves(Float(3048, -4), 4))
    ELSE FactorRules(conv, parameter)

\* the order-zero wall coefficient scaled by the foot, not by the square foot
_factor_wall_zero_per_foot(conv, parameter) ==
    IF /\ parameter = P("WALL_REACTION_COEFFICIENT")
       /\ conv.wall_reaction_order = Member("WallReactionOrder", "ZERO")
       /\ conv.traditional
        THEN Return(Div(Mul(conv.mass_unit_factor, Float(3048, -4)), Float(86400, 0)))
    ELSE FactorRules(conv, parameter)

_factor(conv, parameter) == FactorRules(conv, parameter)

\* Converter.to_si: value * factor
to_si(conv, value, parameter) ==
    LET factor == _factor(conv, parameter)
    IN  IF Raised(factor) THEN factor ELSE Return(Mul(value, factor.val))

\* from_si recomputing its factor asymmetrically: always with the metric rules
from_si_metric_factor(conv, value, parameter) ==
    LET factor == _factor([conv EXCEPT !.traditional = FALSE], parameter)
    IN  IF Raised(factor) THEN factor
        ELSE IF IsZero(factor.val) THEN Raise("ZeroDivisionError", None)
        ELSE Return(Div(value, factor.val))

\* Converter.from_si: value / factor; a float division by zero raises
from_si(conv, value, parameter) ==
    LET factor == _factor(conv, parameter)
    IN  IF Raised(factor) THEN factor
        ELSE IF IsZero(factor.val) THEN Raise("ZeroDivisionError", None)
        ELSE Return(Div(value, factor.val))

(***************************************************************************)
(* Texts.  A str is a string; the characters outside ASCII are written by  *)
(* their code points.  The source text handed to tr is a sequence of       *)
(* pieces: plain text, and the replacement fields that str.format fills.   *)
(***************************************************************************)
SquareRoot == "<U+221A>"

SuperscriptTwo == "<U+00B2>"

SuperscriptThree == "<U+00B3>"

SuperscriptMinus == "<U+207B>"

Text(s) == [kind |-> "text", s |-> s]

Field(n) == [kind |-> "field", s |-> n]

\* the translations installed: none, the texts are shown in the source language
Catalogue == [t \in {} |-> t]

\* tr(text): the installed translation of a source text, or the text itself
tr(text) == IF text \in DOMAIN Catalogue THEN Catalogue[text] ELSE text

\* the str of a text: a replacement field nobody filled stays as written
RECURSIVE Literal(_)
Literal(text) ==
    IF text = <<>> THEN ""
    ELSE (IF Head(text).kind = "field" THEN "{" \o Head(text).s \o "}" ELSE Head(text).s)
         \o Literal(Tail(text))

\* text.format(name=value)
RECURSIVE format(_, _, _)
format(text, name, value) ==
    IF text = <<>> THEN ""
    ELSE (IF Head(text) = Field(name) THEN value ELSE Literal(<<Head(text)>>))
         \o format(Tail(text), name, value)

\* tr("...") of a text without replacement fields
Plain(s) == Literal(tr(<<Text(s)>>))

(***************************************************************************)
(* UnitNames: the labels shown while no units have been chosen.            *)
(***************************************************************************)
UnitNames_flow_unit_name == Return(Plain("*flow*"))

UnitNames_mass_unit_name == Return(Plain("*mass*"))

\* the if/elif chain of UnitNames.get
UnitNamesRules(parameter) ==
    IF parameter = P("FLOW") THEN UnitNames_flow_unit_name
    ELSE IF parameter = P("EMITTER_COEFFICIENT")
        THEN Return(format(tr(<<Field("flow_unit"), Text(" / " \o SquareRoot \o "m or "),
                                Field("flow_unit"), Text(" / " \o SquareRoot \o "psi")>>),
                           "flow_unit", UnitNames_flow_unit_name.val))
    ELSE IF parameter = P("PIPE_DIAMETER") THEN Return(Plain("mm or inches"))
    ELSE IF parameter = P("ROUGHNESS_COEFFICIENT")
        THEN Return(Plain("unitless, mm, or 10" \o SuperscriptMinus \o SuperscriptThree \o " ft"))
    ELSE IF parameter \in {P("TANK_DIAMETER"), P("ELEVATION"), P("HYDRAULIC_HEAD"), P("LENGTH")}
        THEN Return(Plain("m or ft"))
    ELSE IF parameter = P("UNIT_HEADLOSS") THEN Return(Plain("m/1000 m or ft/1000 ft"))
    ELSE IF parameter = P("VELOCITY") THEN Return(Plain("m/s or ft/s"))
    ELSE IF parameter = P("ENERGY") THEN Return(Plain("kWh"))
    ELSE IF parameter = P("POWER") THEN Return(Plain("kW or hp"))
    ELSE IF parameter = P("PRESSURE") THEN Return(Plain("m or psi"))
    ELSE IF parameter = P("VOLUME")
        THEN Return(Plain("m" \o SuperscriptThree \o " or ft" \o SuperscriptThree))
    ELSE IF parameter = P("CONCENTRATION") THEN Return(Plain("mg/L"))
    ELSE IF parameter = P("REACTION_RATE") THEN Return(Plain("mg/L/day"))
    ELSE IF parameter = P("SOURCE_MASS_INJECTION") THEN Return(Plain("mg/min"))
    ELSE IF parameter = P("BULK_REACTION_COEFFICIENT") THEN Return(Plain(" "))
    ELSE IF parameter = P("WALL_REACTION_COEFFICIENT")
        THEN Return(Plain("mg/m" \o SuperscriptTwo \o "/day,  mg/ft" \o SuperscriptTwo
                          \o "/day, m/day, or ft/day"))
    ELSE IF parameter = P("WATER_AGE") THEN Return(Plain("hours"))
    ELSE IF parameter = P("UNITLESS") THEN Return(Plain("unitless"))
    ELSE IF parameter = P("FRACTION") THEN Return(Plain("fraction"))
    ELSE IF parameter = P("CURRENCY") THEN Return(Plain("currency"))
    ELSE Raise("ValueError", parameter)

\* UnitNames.get
UnitNames_get(parameter) == UnitNamesRules(parameter)

(***************************************************************************)
(* SpecificUnitNames(Converter, UnitNames): the labels of a converter.  It *)
(* is built by Converter.__init__ and holds the attributes of a Converter. *)
(***************************************************************************)
\* the if chain of SpecificUnitNames.flow_unit_name
FlowUnitNameRules(conv) ==
    LET flow_unit == conv.flow_units
    IN  IF flow_unit = Member("FlowUnit", "LPS") THEN Return(Plain("L/s"))
        ELSE IF flow_unit = Member("FlowUnit", "LPM") THEN Return(Plain("L/min"))
        ELSE IF flow_unit = Member("FlowUnit", "MLD") THEN Return(Plain("ML/day"))
        ELSE IF flow_unit = Member("FlowUnit", "CMH")
            THEN Return(Plain("m" \o SuperscriptThree \o "/hour"))
        ELSE IF flow_unit = Member("FlowUnit", "CMD")
            THEN Return(Plain("m" \o SuperscriptThree \o "/day"))
        ELSE IF flow_unit = Member("FlowUnit", "CFS")
            THEN Return(Plain("ft" \o SuperscriptThree \o "/s"))
        ELSE IF flow_unit = Member("FlowUnit", "GPM") THEN Return(Plain("gal/min"))
        ELSE IF flow_unit = Member("FlowUnit", "MGD") THEN Return(Plain("MG/day"))
        ELSE IF flow_unit = Member("FlowUnit", "IMGD") THEN Return(Plain("imp gal/day"))
        ELSE IF flow_unit = Member("FlowUnit", "AFD") THEN Return(Plain("Acre-ft/day"))
        ELSE Raise("ValueError", None)

\* SpecificUnitNames.flow_unit_name
flow_unit_name(conv) == FlowUnitNameRules(conv)

\* SpecificUnitNames.mass_unit_name
mass_unit_name(conv) ==
    LET mass_unit == conv.mass_unit
    IN  IF mass_unit = Member("MassUnit", "MG") THEN Return(Plain("mg"))
        ELSE IF mass_unit = Member("MassUnit", "UG") THEN Return(Plain("ug"))
        ELSE Raise("ValueError", mass_unit)

\* SpecificUnitNames.get from `mass = self.mass_unit_name()` on
MassRules(conv, parameter, mass) ==
    IF parameter = P("CONCENTRATION")
        THEN Return(format(tr(<<Field("mass_unit"), Text("/L")>>), "mass_unit", mass))
    ELSE IF parameter = P("REACTION_RATE")
        THEN Return(format(tr(<<Field("mass_unit"), Text("/L/day")>>), "mass_unit", mass))
    ELSE IF parameter = P("SOURCE_MASS_INJECTION")
        THEN Return(format(tr(<<Field("mass_unit"), Text("/min")>>), "mass_unit", mass))
    ELSE IF parameter = P("BULK_REACTION_COEFFICIENT") THEN Return("  ")
    ELSE IF /\ parameter = P("WALL_REACTION_COEFFICIENT")
            /\ conv.wall_reaction_order = Member("WallReactionOrder", "ZERO")
        THEN IF conv.traditional
             THEN Return(format(tr(<<Field("mass_unit"),
                                     Text("/ft" \o SuperscriptTwo \o "/day")>>),
                                "mass_unit", mass))
             ELSE Return(format(tr(<<Field("mass_unit"),
                                     Text("/m" \o SuperscriptTwo \o "/day")>>),
                                "mass_unit", mass))
    ELSE IF /\ parameter = P("WALL_REACTION_COEFFICIENT")
            /\ conv.wall_reaction_order = Member("WallReactionOrder", "ONE")
        THEN IF conv.traditional THEN Return(Plain("ft/day")) ELSE Return(Plain("m/day"))
    ELSE IF parameter = P("WATER_AGE") THEN Return(Plain("hours"))
    ELSE IF parameter = P("UNITLESS") THEN Return(Plain("unitless"))
    ELSE IF parameter = P("FRACTION") THEN Return(Plain("fraction"))
    ELSE IF parameter = P("CURRENCY") THEN Return(Plain("currency"))
    ELSE Raise("ValueError", parameter)

\* the if/elif chain of SpecificUnitNames.get: the label of `parameter`, or
\* the exception raised
GetRules(conv, parameter) ==
    IF parameter = P("FLOW") THEN flow_unit_name(conv)
    ELSE IF parameter = P("EMITTER_COEFFICIENT")
        THEN LET name == flow_unit_name(conv)
             IN  IF Raised(name) THEN name
                 ELSE IF conv.traditional
                     THEN Return(format(tr(<<Field("flow_unit"), Text("/" \o SquareRoot \o "psi")>>),
                                        "flow_unit", name.val))
                     ELSE Return(format(tr(<<Field("flow_unit"), Text("/" \o SquareRoot \o "m")>>),
                                        "flow_unit", name.val))
    ELSE IF parameter = P("PIPE_DIAMETER")
        THEN IF conv.traditional THEN Return(Plain("in")) ELSE Return(Plain("mm"))
    ELSE IF parameter = P("ROUGHNESS_COEFFICIENT")
        THEN IF conv.headloss_formula = Member("HeadlossFormula", "DARCY_WEISBACH")
             THEN IF conv.traditional
                  THEN Return(Plain("10" \o SuperscriptMinus \o SuperscriptThree \o " ft"))
                  ELSE Return(Plain("mm"))
             ELSE Return(Plain("unitless"))
    ELSE IF parameter \in {P("TANK_DIAMETER"), P("ELEVATION"), P("HYDRAULIC_HEAD"), P("LENGTH")}
        THEN IF conv.traditional THEN Return(Plain("ft")) ELSE Return(Plain("m"))
    ELSE IF parameter = P("UNIT_HEADLOSS")
        THEN IF conv.traditional THEN Return(Plain("ft/1000 ft  ")) ELSE Return(Plain("m/1000 m"))
    ELSE IF parameter = P("VELOCITY")
        THEN IF conv.traditional THEN Return(Plain("ft/s")) ELSE Return(Plain("m/s"))
    ELSE IF parameter = P("ENERGY") THEN Return(Plain("kWhr"))
    ELSE IF parameter = P("POWER")
        THEN IF conv.traditional THEN Return(Plain("hp")) ELSE Return(Plain("kW"))
    ELSE IF parameter = P("PRESSURE")
        THEN IF conv.traditional THEN Return(Plain("psi")) ELSE Return(Plain("m"))
    ELSE IF parameter = P("VOLUME")
        THEN IF conv.traditional THEN Return(Plain("ft" \o SuperscriptThree))
             ELSE Return(Plain("m" \o SuperscriptThree))
    ELSE LET mass == mass_unit_name(conv)
         IN  IF Raised(mass) THEN mass ELSE MassRules(conv, parameter, mass.val)

\* the power label not following the family
get_power_in_kw(conv, parameter) ==
    IF parameter = P("POWER") THEN Return(Plain("kW")) ELSE GetRules(conv, parameter)

\* the order-one wall coefficient labelled with the mass unit, as the
\* order-zero one is
get_wall_order_one_with_mass(conv, parameter) ==
    IF /\ parameter = P("WALL_REACTION_COEFFICIENT")
       /\ conv.wall_reaction_order = Member("WallReactionOrder", "ONE")
    THEN Return(format(tr(<<Field("mass_unit"), Text(" m/day")>>), "mass_unit",
                       mass_unit_name(conv).val))
    ELSE GetRules(conv, parameter)

\* SpecificUnitNames.get
get(conv, parameter) == GetRules(conv, parameter)

(***************************************************************************)
(* elements.py: the valve types and the field that holds a valve's setting *)
(***************************************************************************)
ValveTypeNames == <<"PRV", "PSV", "PBV", "FCV", "TCV", "GPV">>

ValveType == {Member("ValveType", ValveTypeNames[i]) : i \in DOMAIN ValveTypeNames}

\* class Field, the members that hold a valve's setting: name, value, type
FieldDecl ==
    << <<"PRESSURE_SETTING", "pressure_setting", P("PRESSURE")>>,
       <<"FLOW_SETTING", "flow_setting", P("FLOW")>>,
       <<"THROTTLE_SETTING", "throttle_setting", P("UNITLESS")>>,
       <<"HEADLOSS_CURVE", "headloss_curve", Member("SimpleFieldType", "CURVE")>> >>

\* Field.<n>
FieldMember(n) == Member("Field", n)

\* Field.type
Field_type(field) ==
    FieldDecl[CHOOSE i \in DOMAIN FieldDecl : FieldDecl[i][1] = field.name][3]

\* Field.value
Field_value(field) ==
    FieldDecl[CHOOSE i \in DOMAIN FieldDecl : FieldDecl[i][1] = field.name][2]

\* the pressure breaking valve set by a flow
setting_field_pbv_by_flow(valve_type) ==
    IF valve_type \in {Member("ValveType", "PRV"), Member("ValveType", "PSV")}
        THEN Return(FieldMember("PRESSURE_SETTING"))
    ELSE IF valve_type \in {Member("ValveType", "FCV"), Member("ValveType", "PBV")}
        THEN Return(FieldMember("FLOW_SETTING"))
    ELSE IF valve_type = Member("ValveType", "TCV") THEN Return(FieldMember("THROTTLE_SETTING"))
    ELSE IF valve_type = Member("ValveType", "GPV") THEN Return(FieldMember("HEADLOSS_CURVE"))
    ELSE Raise("ValueError", None)

\* ValveType.setting_field
setting_field(valve_type) ==
    IF valve_type \in {Member("ValveType", "PRV"), Member("ValveType", "PSV"),
                       Member("ValveType", "PBV")}
        THEN Return(FieldMember("PRESSURE_SETTING"))
    ELSE IF valve_type = Member("ValveType", "FCV") THEN Return(FieldMember("FLOW_SETTING"))
    ELSE IF valve_type = Member("ValveType", "TCV") THEN Return(FieldMember("THROTTLE_SETTING"))
    ELSE IF valve_type = Member("ValveType", "GPV") THEN Return(FieldMember("HEADLOSS_CURVE"))
    ELSE Raise("ValueError", None)

\* the export of a valve: the SI setting goes to the valve type's setting
\* field, converted by from_si when the field's type is a Parameter
export_setting(conv, valve_type, setting) ==
    IF Raised(setting_field(valve_type)) THEN setting_field(valve_type)
    ELSE IF Field_type(setting_field(valve_type).val) \in Parameters
        THEN from_si(conv, setting, Field_type(setting_field(valve_type).val))
    ELSE Return(setting)

(***************************************************************************)
(* pattern_curve.py: class Pattern(tuple), a tuple of floats.              *)
(*                                                                         *)
(* A float of a pattern is a decimal number sgn * m * 10^k (m without a    *)
(* trailing zero, at most 15 digits, so that the binary64 nearest to it    *)
(* has it as its shortest repr), an infinity, or a NaN.  A NaN is an object*)
(* with an identity: float(text) makes a new one at every call.            *)
(***************************************************************************)
Finite(sgn, m, k) == [cls |-> "float", kind |-> "finite", sgn |-> sgn, m |-> m, k |-> k]

Infinite(sgn) == [cls |-> "float", kind |-> "inf", sgn |-> sgn]

NaN(id) == [cls |-> "float", kind |-> "nan", id |-> id]

\* m * 10^k brought to the form without trailing zeros
RECURSIVE Canonical(_, _, _)
Canonical(sgn, m, k) ==
    IF m = 0 THEN Finite(sgn, 0, 0)
    ELSE IF m % 10 = 0 THEN Canonical(sgn, m \div 10, k + 1)
    ELSE Finite(sgn, m, k)

Char(s, i) == SubSeq(s, i, i)

DigitChars == <<"0", "1", "2", "3", "4", "5", "6", "7", "8", "9">>

IsDigit(c) == \E d \in DOMAIN DigitChars : DigitChars[d] = c

DigitValue(c) == (CHOOSE d \in DOMAIN DigitChars : DigitChars[d] = c) - 1

\* the decimal digits of a natural number
RECURSIVE DigitsOf(_)
DigitsOf(n) == IF n < 10 THEN DigitChars[n + 1] ELSE DigitsOf(n \div 10) \o DigitChars[(n % 10) + 1]

RECURSIVE Zeros(_)
Zeros(n) == IF n <= 0 THEN "" ELSE "0" \o Zeros(n - 1)

\* float.__repr__ of a finite float with digits d and decimal point after
\* the first decpt digits: fixed notation for -4 < decpt <= 16, else exponent
\* notation with a sign and at least two digits
ReprDigits(d, decpt) ==
    IF decpt > -4 /\ decpt <= 16
    THEN IF decpt <= 0 THEN "0." \o Zeros(-decpt) \o d
         ELSE IF decpt >= Len(d) THEN d \o Zeros(decpt - Len(d)) \o ".0"
         ELSE SubSeq(d, 1, decpt) \o "." \o SubSeq(d, decpt + 1, Len(d))
    ELSE LET exp == decpt - 1
             abs == IF exp < 0 THEN -exp ELSE exp
         IN  Char(d, 1)
             \o (IF Len(d) > 1 THEN "." \o SubSeq(d, 2, Len(d)) ELSE "")
             \o "e" \o (IF exp < 0 THEN "-" ELSE "+")
             \o (IF abs < 10 THEN "0" ELSE "") \o DigitsOf(abs)

\* str(x) of a float x
float_str(x) ==
    IF x.kind = "nan" THEN "nan"
    ELSE IF x.kind = "inf" THEN (IF x.sgn < 0 THEN "-inf" ELSE "inf")
    ELSE (IF x.sgn < 0 THEN "-" ELSE "")
         \o ReprDigits(DigitsOf(x.m), Len(DigitsOf(x.m)) + x.k)

Whitespace == {" ", "\t"}

\* str.split(): the runs of characters that are not whitespace
RECURSIVE SplitFrom(_, _, _)
SplitFrom(s, i, word) ==
    IF i > Len(s) THEN (IF word = "" THEN <<>> ELSE <<word>>)
    ELSE IF Char(s, i) \in Whitespace
        THEN (IF word = "" THEN <<>> ELSE <<word>>) \o SplitFrom(s, i + 1, "")
    ELSE SplitFrom(s, i + 1, word \o Char(s, i))

split(s) == SplitFrom(s, 1, "")

\* float(text) reads [sign] digits [. digits] [e [sign] digits], with single
\* underscores between digits; the reader's state after some characters: the
\* digits read so far are those of m followed by z zeros
Start ==
    [ok |-> TRUE, phase |-> "start", sgn |-> 1, m |-> 0, z |-> 0, nd |-> 0, frac |-> 0,
     esgn |-> 1, e |-> 0]

RECURSIVE TenTo(_)
TenTo(n) == IF n = 0 THEN 1 ELSE 10 * TenTo(n - 1)

\* one more digit d after the digits of m and z zeros
Mantissa(st, d) ==
    IF d = 0 THEN [st EXCEPT !.z = @ + 1, !.nd = @ + 1]
    ELSE IF st.m = 0 THEN [st EXCEPT !.m = d, !.z = 0, !.nd = @ + 1]
    ELSE [st EXCEPT !.m = @ * TenTo(st.z + 1) + d, !.z = 0, !.nd = @ + 1]

Reject(st) == [st EXCEPT !.ok = FALSE]

ReadDigit(st, d) ==
    IF st.phase \in {"start", "int"} THEN [Mantissa(st, d) EXCEPT !.phase = "int"]
    ELSE IF st.phase = "frac" THEN [Mantissa(st, d) EXCEPT !.frac = @ + 1]
    ELSE [st EXCEPT !.phase = "exp", !.e = @ * 10 + d]

ReadSign(st, sgn) ==
    IF st.phase = "start" /\ st.nd = 0 THEN [st EXCEPT !.phase = "int", !.sgn = sgn]
    ELSE IF st.phase = "estart" THEN [st EXCEPT !.phase = "esigned", !.esgn = sgn]
    ELSE Reject(st)

ReadChar(st, s, i) ==
    IF IsDigit(Char(s, i)) THEN ReadDigit(st, DigitValue(Char(s, i)))
    ELSE IF Char(s, i) = "+" THEN (IF i = 1 \/ st.phase = "estart" THEN ReadSign(st, 1) ELSE Reject(st))
    ELSE IF Char(s, i) = "-" THEN (IF i = 1 \/ st.phase = "estart" THEN ReadSign(st, -1) ELSE Reject(st))
    ELSE IF Char(s, i) = "."
        THEN (IF st.phase \in {"start", "int"} THEN [st EXCEPT !.phase = "frac"] ELSE Reject(st))
    ELSE IF Char(s, i) \in {"e", "E"}
        THEN (IF st.phase \in {"int", "frac"} /\ st.nd > 0
              THEN [st EXCEPT !.phase = "estart"] ELSE Reject(st))
    ELSE IF Char(s, i) = "_"
        THEN (IF i > 1 /\ i < Len(s) /\ IsDigit(Char(s, i - 1)) /\ IsDigit(Char(s, i + 1))
              THEN st ELSE Reject(st))
    ELSE Reject(st)

RECURSIVE Read(_, _, _)
Read(st, s, i) ==
    IF i > Len(s) \/ ~st.ok THEN st ELSE Read(ReadChar(st, s, i), s, i + 1)

Accepted(st) == st.ok /\ st.nd > 0 /\ st.phase \in {"int", "frac", "exp"}

NanTexts == {"nan", "NaN", "NAN", "+nan", "-nan"}

InfTexts == {"inf", "+inf", "Inf", "INF", "infinity", "Infinity"}

MinusInfTexts == {"-inf", "-Inf", "-INF", "-infinity", "-Infinity"}

Number(st) == Canonical(st.sgn, st.m, st.esgn * st.e - st.frac + st.z)

\* float(text) of a text without whitespace; a NaN made here is the object id
float_of_word(word, id) ==
    IF word \in NanTexts THEN Return(NaN(id))
    ELSE IF word \in InfTexts THEN Return(Infinite(1))
    ELSE IF word \in MinusInfTexts THEN Return(Infinite(-1))
    ELSE IF Accepted(Read(Start, word, 1)) THEN Return(Number(Read(Start, word, 1)))
    ELSE Raise("ValueError", Str(word))

\* float(item): a float is itself, a str is read after stripping its
\* whitespace, anything else is a TypeError
float(item, id) ==
    IF item.cls = "float" THEN Return(item)
    ELSE IF item.cls = "str"
        THEN IF Len(split(item.name)) = 1 THEN float_of_word(split(item.name)[1], id)
             ELSE Raise("ValueError", item)
    ELSE Raise("TypeError", item)

Tuple(items) == [cls |-> "tuple", items |-> items]

PatternOf(items) == [cls |-> "Pattern", items |-> items]

\* pattern.strip().split() if isinstance(pattern, str) else pattern
pattern_parts(pattern) ==
    IF pattern.cls = "str" THEN [i \in 1..Len(split(pattern.name)) |-> Str(split(pattern.name)[i])]
    ELSE pattern.items

Floats(parts, id) == [i \in 1..Len(parts) |-> float(parts[i], id + i)]

\* Pattern.__new__(cls, pattern); the NaNs it makes are the objects id + 1 ..
Pattern__new__(pattern, id) ==
    IF pattern = None THEN Return(PatternOf(<<>>))
    ELSE IF pattern.cls \notin {"str", "tuple", "Pattern"} THEN Raise("ValueError", pattern)
    ELSE IF \E i \in 1..Len(pattern_parts(pattern)) : Raised(Floats(pattern_parts(pattern), id)[i])
        THEN Raise("ValueError", pattern)
    ELSE Return(PatternOf([i \in 1..Len(pattern_parts(pattern)) |->
                              Floats(pattern_parts(pattern), id)[i].val]))

\* sep.join(words)
RECURSIVE join(_, _)
join(sep, words) ==
    IF Len(words) = 0 THEN ""
    ELSE IF Len(words) = 1 THEN words[1]
    ELSE words[1] \o sep \o join(sep, Tail(words))

\* Pattern.__str__
Pattern__str__(p) == Str(join(" ", [i \in 1..Len(p.items) |-> float_str(p.items[i])]))

\* x == y of two floats
float__eq__(x, y) ==
    IF x.kind = "nan" \/ y.kind = "nan" THEN FALSE
    ELSE IF x.kind = "finite" /\ y.kind = "finite" /\ x.m = 0 /\ y.m = 0 THEN TRUE
    ELSE x = y

\* tuple.__eq__: the same length, and item by item the same object or equal
tuple__eq__(p, q) ==
    /\ Len(p.items) = Len(q.items)
    /\ \A i \in 1..Len(p.items) : p.items[i] = q.items[i] \/ float__eq__(p.items[i], q.items[i])

(***************************************************************************)
(* import_inp.py: ImportInp                                                *)
(***************************************************************************)
\* FlowUnit.friendly_name
FlowUnitFriendlyNames ==
    <<"Litres per Second", "Litres per Minute", "Mega Litres Per Day", "Cubic Metres per Hour",
      "Cubic Metres per Day", "Cubic Feet per Second", "Gallons per Minute",
      "Mega Gallons per Day", "Imperial Mega Gallons per Day", "Acre-feet per Day">>

friendly_name(flow_unit) ==
    Plain(FlowUnitFriendlyNames[CHOOSE i \in DOMAIN FlowUnitNames :
                                    FlowUnitNames[i] = flow_unit.name])

\* list(FlowUnit): the members in the order of their definition
FlowUnitList == [i \in DOMAIN FlowUnitNames |-> Member("FlowUnit", FlowUnitNames[i])]

\* initAlgorithm: options=[fu.friendly_name for fu in FlowUnit] of the UNITS
\* parameter
UnitsOptions == [i \in DOMAIN FlowUnitList |-> friendly_name(FlowUnitList[i])]

\* an int of Python
PyInt(n) == [cls |-> "int", val |-> n]

\* parameterAsEnum of an enum parameter set to an index
parameterAsEnum(parameters, key) == parameters[key].val

\* parameters.get(key)
ParametersGet(parameters, key) ==
    IF key \in DOMAIN parameters THEN parameters[key] ELSE None

\* _set_flow_unit taking an index that is false for unset: `if parameters.get(self.UNITS):`
ImportInp_set_flow_unit_if_true(parameters, options) ==
    IF ParametersGet(parameters, "UNITS") \notin {None, PyInt(0)}
    THEN [options EXCEPT !.flow_unit = FlowUnitList[parameterAsEnum(parameters, "UNITS") + 1]]
    ELSE options

\* ImportInp._set_flow_unit; an index of a Python list counts from 0
ImportInp_set_flow_unit(parameters, options) ==
    IF ParametersGet(parameters, "UNITS") # None
    THEN [options EXCEPT !.flow_unit = FlowUnitList[parameterAsEnum(parameters, "UNITS") + 1]]
    ELSE options

\* Converter.from_options as called on SpecificUnitNames
from_options(options) ==
    __init__(options.flow_unit, options.headloss_formula, options.mass_unit,
             options.wall_reaction_order)

\* ImportInp.processAlgorithm from `options = options_from_wn(wn)` on, for
\* the options read from the .inp file
ImportInp_output(parameters, read) ==
    [options_to_save |-> ImportInp_set_flow_unit(parameters, read),
     info |-> format(tr(<<Text("Will output with the following units: "), Field("flow_unit")>>),
                     "flow_unit",
                     friendly_name(ImportInp_set_flow_unit(parameters, read).flow_unit)),
     units |-> from_options(ImportInp_set_flow_unit(parameters, read)).val]

\* ImportInp.processAlgorithm; `loaded` is what _load_inp does with the file:
\* it returns the network, whose options are read, or raises
ImportInp_processAlgorithm(parameters, loaded) ==
    IF Raised(loaded) THEN loaded ELSE Return(ImportInp_output(parameters, loaded.val))

(***************************************************************************)
(* run_simulation.py: _ModelCreatorAlgorithm, RunSimulation, ExportInpFile.*)
(* `env` holds what the world outside the algorithm does in a run: whether *)
(* wntr is installed, the text of the ENERGY_PATTERN parameter, what       *)
(* from_qgis, check_network, options_to_wn and the EPANET simulator do     *)
(* with the model, and whether the thread is the application's main one.   *)
(* A stage returns its outcome and the trace of the steps it has run.      *)
(***************************************************************************)
QgsProcessingException(e) == Raise("QgsProcessingException", e)

Traced(outcome, trace) == [outcome |-> outcome, trace |-> trace]

\* CommonProcessingBase._check_wntr
_check_wntr(env) ==
    IF env.wntr = "installed" THEN Return(None)
    ELSE QgsProcessingException(Str("wntr is not installed"))

\* _get_model_options: the energy pattern is the one parameter whose reading
\* can fail
_get_model_options(env) ==
    IF Raised(Pattern__new__(env.energy_pattern, 0))
    THEN QgsProcessingException(Pattern__new__(env.energy_pattern, 0).arg)
    ELSE Return([energy_pattern |-> Pattern__new__(env.energy_pattern, 0).val])

\* _get_wn with the errors of check_network let through
_get_wn_unchecked(env) ==
    IF Raised(_get_model_options(env))
        THEN Traced(_get_model_options(env), <<"_get_model_options">>)
    ELSE IF env.from_qgis = "NetworkModelError"
        THEN Traced(QgsProcessingException(Str("Error preparing model")),
                    <<"_get_model_options", "from_qgis">>)
    ELSE IF env.options_to_wn = "ValueError"
        THEN Traced(QgsProcessingException(Str("ValueError")),
                    <<"_get_model_options", "from_qgis", "check_network", "options_to_wn">>)
    ELSE Traced(Return(Str("wn")),
                <<"_get_model_options", "from_qgis", "check_network", "options_to_wn">>)

\* _ModelCreatorAlgorithm._get_wn
_get_wn(env) ==
    IF Raised(_get_model_options(env))
        THEN Traced(_get_model_options(env), <<"_get_model_options">>)
    ELSE IF env.from_qgis = "NetworkModelError"
        THEN Traced(QgsProcessingException(Str("Error preparing model")),
                    <<"_get_model_options", "from_qgis">>)
    ELSE IF env.check_network = "NetworkModelError"
        THEN Traced(QgsProcessingException(Str("Error preparing model")),
                    <<"_get_model_options", "from_qgis", "check_network">>)
    ELSE IF env.options_to_wn = "ValueError"
        THEN Traced(QgsProcessingException(Str("ValueError")),
                    <<"_get_model_options", "from_qgis", "check_network", "options_to_wn">>)
    ELSE Traced(Return(Str("wn")),
                <<"_get_model_options", "from_qgis", "check_network", "options_to_wn">>)

\* _ModelCreatorAlgorithm._run_simulation
_run_simulation(env) ==
    IF env.run_sim = "EpanetException"
    THEN Traced(QgsProcessingException(Str("Epanet error")), <<"run_sim">>)
    ELSE Traced(Return(Str("sim_results")), <<"run_sim">>)

\* class ResultLayer, in the order of its definition
ResultLayerNames == <<"NODES", "LINKS">>

\* _ModelCreatorAlgorithm.write_output_result_layers: a sink is written for
\* each ResultLayer in turn
write_output_result_layers(env) ==
    Traced(Return({ResultLayerNames[i] : i \in DOMAIN ResultLayerNames}),
           [i \in DOMAIN ResultLayerNames |-> "write " \o ResultLayerNames[i]])

\* _ModelCreatorAlgorithm.write_inp_file
write_inp_file(env) == Traced(Return({"OUTPUT_INP"}), <<"write_inpfile">>)

\* the stages of processAlgorithm after the dependency check and the
\* preparation of the model
RunSimulationStages == <<"_run_simulation", "write_output_result_layers">>

ExportInpFileStages == <<"write_inp_file">>

Stages(cls) ==
    <<"_check_wntr", "_get_wn">>
        \o (IF cls = "RunSimulation" THEN RunSimulationStages ELSE ExportInpFileStages)

\* what a stage does
Stage(name, env) ==
    IF name = "_check_wntr" THEN Traced(_check_wntr(env), <<"_check_wntr">>)
    ELSE IF name = "_get_wn" THEN _get_wn(env)
    ELSE IF name = "_run_simulation" THEN _run_simulation(env)
    ELSE IF name = "write_output_result_layers" THEN write_output_result_layers(env)
    ELSE write_inp_file(env)

\* the parameters the algorithm declares for its outputs
\* (init_output_files_parameters, init_export_inp_parameter)
OutputParameters(cls) ==
    IF cls = "RunSimulation" THEN {ResultLayerNames[i] : i \in DOMAIN ResultLayerNames}
    ELSE {"OUTPUT_INP"}

\* the help text of both algorithms: what is done, the outputs, the optional
\* output
shortHelpString(cls) ==
    [does |-> <<"take all of the model layers", "combine them with the chosen options",
                "run a simulation on WNTR">>,
     outputs |-> {"NODES", "LINKS"},
     optional |-> {"OUTPUT_INP"}]

\* prepareAlgorithm saving the settings from whatever thread it is on
prepareAlgorithm_any_thread(env) ==
    IF Raised(_get_model_options(env))
        THEN [outcome |-> _get_model_options(env), written |-> {"MODEL_LAYERS"},
              base |-> FALSE]
    ELSE [outcome |-> Return(None), written |-> {"MODEL_LAYERS", "options"}, base |-> TRUE]

\* _ModelCreatorAlgorithm.prepareAlgorithm: its outcome, the project
\* settings it has written, and whether it has called the base class
prepareAlgorithm(env) ==
    IF env.main_thread
    THEN IF Raised(_get_model_options(env))
         THEN [outcome |-> _get_model_options(env), written |-> {"MODEL_LAYERS"},
               base |-> FALSE]
         ELSE [outcome |-> Return(None), written |-> {"MODEL_LAYERS", "options"},
               base |-> TRUE]
    ELSE [outcome |-> Return(None), written |-> {}, base |-> TRUE]

(***************************************************************************)
(* run_simulation.py: logger_to_feedback.  The loggers of the logging      *)
(* module are a flag `propagate` and a set of handlers for each name; a    *)
(* logger is created propagating and without handlers.  The context        *)
(* manager runs up to its yield when the block is entered and its finally  *)
(* clause when the block is left, with or without an exception.            *)
(***************************************************************************)
LoggerNames == {"gusnet", "wntr"}

getLogger == [propagate |-> TRUE, handlers |-> {}]

\* up to the yield
logger_to_feedback_enter(loggers, logger_name, logging_handler) ==
    [loggers EXCEPT ![logger_name] =
        [propagate |-> FALSE, handlers |-> @.handlers \cup {logging_handler}]]

\* the clean-up written after the yield without try and finally: an
\* exception of the block passes it by
logger_to_feedback_exit_unprotected(loggers, logger_name, logging_handler, raised) ==
    IF raised THEN loggers
    ELSE [loggers EXCEPT ![logger_name] =
            [propagate |-> TRUE, handlers |-> @.handlers \ {logging_handler}]]

\* the finally clause
logger_to_feedback_exit(loggers, logger_name, logging_handler, raised) ==
    [loggers EXCEPT ![logger_name] =
        [propagate |-> TRUE, handlers |-> @.handlers \ {logging_handler}]]

(***************************************************************************)
(* Inputs.                                                                 *)
(***************************************************************************)
\* the finite values m * 10^k handed to to_si and from_si
XValues == {XFloat(m, k) : m \in (-MaxMantissa)..MaxMantissa, k \in (-MaxExponent)..MaxExponent}

DValues == {DFloat(m, k) : m \in (-MaxMantissa)..MaxMantissa, k \in (-MaxExponent)..MaxExponent}

Values == IF arith = "ieee" THEN DValues ELSE XValues

\* values that are no member of Parameter: None, a member of another FieldType,
\* the bare name of a member
NonParameters == {None, Member("SimpleFieldType", "STR"), Str("FLOW")}

ParameterInputs == Parameters \cup NonParameters

\* constructor arguments: the members of each enum, None, and a bare string
FlowUnitInputs == FlowUnit \cup {None, Str("CFS")}

HeadlossFormulaInputs == HeadlossFormula \cup {None}

MassUnitInputs == MassUnit \cup {None}

WallReactionOrderInputs == WallReactionOrder \cup {None}

ConfigurationInputs ==
    (FlowUnitInputs \X HeadlossFormulaInputs \X MassUnitInputs \X WallReactionOrderInputs)
    \cup (FlowUnitInputs \X HeadlossFormulaInputs \X MassUnitInputs)
    \cup (FlowUnitInputs \X HeadlossFormulaInputs)

(***************************************************************************)
(* The state machine: one Converter is built, then called any number of    *)
(* times.                                                                  *)
(***************************************************************************)
Call(op, args, source) == [op |-> op, args |-> args, source |-> source]

NoCall == Call("none", <<>>, None)

\* the callers of a shared object, and a caller that is not in a call
Callers == 1..NCallers

Idle == [pc |-> "idle"]

Init ==
    /\ arith = "exact"
    /\ self = None
    /\ call = NoCall
    /\ result = Return(None)
    /\ frames = [c \in Callers |-> Idle]

\* Converter(flow_units, headloss_formula, mass_unit, wall_reaction_order), or
\* with the last one or two arguments left out
Construct(configurations) ==
    /\ self = None
    /\ call = NoCall
    /\ \E c \in configurations :
          /\ LET a == Arguments(c)
                 r == __init__(a[1], a[2], a[3], a[4])
             IN  /\ self' = IF Returned(r) THEN r.val ELSE None
                 /\ result' = r
          /\ call' = Call("__init__", c, None)
    /\ UNCHANGED <<arith, frames>>

\* self._factor(parameter)
CallFactor(parameters) ==
    /\ self # None
    /\ call = NoCall
    /\ \E p \in parameters :
          /\ call' = Call("_factor", <<p>>, None)
          /\ result' = _factor(self, p)
    /\ UNCHANGED <<self, arith, frames>>

\* to_si that leaves the factor it has just looked up in self.flow_unit_factor
CallToSi_keeping_factor(values, parameters) ==
    /\ self # None
    /\ call = NoCall
    /\ \E v \in values, p \in parameters :
          /\ call' = Call("to_si", <<v, p>>, None)
          /\ result' = to_si(self, v, p)
          /\ self' = IF Returned(_factor(self, p))
                      THEN [self EXCEPT !.flow_unit_factor = _factor(self, p).val]
                      ELSE self
    /\ UNCHANGED <<arith, frames>>

\* self.to_si(value, parameter) on an input value
CallToSi(values, parameters) ==
    /\ self # None
    /\ call = NoCall
    /\ \E v \in values, p \in parameters :
          /\ call' = Call("to_si", <<v, p>>, None)
          /\ result' = to_si(self, v, p)
    /\ UNCHANGED <<self, arith, frames>>

\* self.from_si(value, parameter) on an input value
CallFromSi(values, parameters) ==
    /\ self # None
    /\ call = NoCall
    /\ \E v \in values, p \in parameters :
          /\ call' = Call("from_si", <<v, p>>, None)
          /\ result' = from_si(self, v, p)
    /\ UNCHANGED <<self, arith, frames>>

\* self.from_si(x, parameter) where x is what self.to_si(value, parameter) has
\* just returned
CallFromSiOfResult ==
    /\ self # None
    /\ call.op = "to_si"
    /\ Returned(result)
    /\ call' = Call("from_si", <<result.val, call.args[2]>>,
                    [op |-> call.op, args |-> call.args])
    /\ result' = from_si(self, result.val, call.args[2])
    /\ UNCHANGED <<self, arith, frames>>

\* self.get(parameter)
CallGet(parameters) ==
    /\ self # None
    /\ call = NoCall
    /\ \E p \in parameters :
          /\ call' = Call("get", <<p>>, None)
          /\ result' = get(self, p)
    /\ UNCHANGED <<self, arith, frames>>

\* self.flow_unit_name()
CallFlowUnitName ==
    /\ self # None
    /\ call = NoCall
    /\ call' = Call("flow_unit_name", <<>>, None)
    /\ result' = flow_unit_name(self)
    /\ UNCHANGED <<self, arith, frames>>

\* self.mass_unit_name()
CallMassUnitName ==
    /\ self # None
    /\ call = NoCall
    /\ call' = Call("mass_unit_name", <<>>, None)
    /\ result' = mass_unit_name(self)
    /\ UNCHANGED <<self, arith, frames>>

\* UnitNames().get(parameter): the resolver of no object in particular
CallUnitNamesGet(parameters) ==
    /\ call = NoCall
    /\ \E p \in parameters :
          /\ call' = Call("UnitNames.get", <<p>>, None)
          /\ result' = UnitNames_get(p)
    /\ UNCHANGED <<self, arith, frames>>

\* the caller has taken the outcome of its call and is ready for the next one
Done ==
    /\ call # NoCall
    /\ call' = NoCall
    /\ result' = Return(None)
    /\ UNCHANGED <<self, arith, frames>>

Next ==
    \/ Construct(ConfigurationInputs)
    \/ CallFactor(ParameterInputs)
    \/ CallToSi(Values, ParameterInputs)
    \/ CallFromSi(Values, ParameterInputs)
    \/ CallGet(ParameterInputs)
    \/ CallFlowUnitName
    \/ CallMassUnitName
    \/ CallUnitNamesGet(ParameterInputs)
    \/ Done

Spec == Init /\ [][Next]_vars

(***************************************************************************)
(* The round trip from_si(to_si(v, p), p), in exact arithmetic and in the  *)
(* doubles the program computes with.                                      *)
(***************************************************************************)
\* the largest finite double and the smallest positive one
DMax == [sgn |-> 1, m |-> BSub(BShl(<<1>>, MantissaBits), <<1>>), x |-> MaxExponent64]

DMin == [sgn |-> 1, m |-> <<1>>, x |-> MinExponent]

RoundTripValues == IF arith = "ieee" THEN Values \cup {DMax, DMin} ELSE Values

\* pow (VOLUME, EMITTER_COEFFICIENT) is left to the exact runs
RoundTripParameters ==
    IF arith = "ieee" THEN Parameters \ {P("VOLUME"), P("EMITTER_COEFFICIENT")}
    ELSE Parameters

\* every configuration in exact arithmetic; in doubles every flow unit, and
\* every headloss formula, mass unit and wall reaction order with CFS
RoundTripConfigurations ==
    IF arith = "ieee"
    THEN (FlowUnit \X {Member("HeadlossFormula", "DARCY_WEISBACH")}
                   \X {Member("MassUnit", "MG")} \X {Member("WallReactionOrder", "ZERO")})
         \cup ({Member("FlowUnit", "CFS")} \X HeadlossFormula \X MassUnit \X WallReactionOrder)
    ELSE FlowUnit \X HeadlossFormula \X MassUnit \X WallReactionOrder

InitRoundTrip ==
    /\ arith \in {"exact", "ieee"}
    /\ self = None
    /\ call = NoCall
    /\ result = Return(None)
    /\ frames = [c \in Callers |-> Idle]

NextRoundTrip ==
    \/ Construct(RoundTripConfigurations)
    \/ CallToSi(RoundTripValues, RoundTripParameters)
    \/ CallFromSiOfResult
    \/ Done

SpecRoundTrip == InitRoundTrip /\ [][NextRoundTrip]_vars

(***************************************************************************)
(* The labels next to the factors: the object is built and asked for its   *)
(* factors and its labels, no value is converted.                          *)
(***************************************************************************)
NextLabels ==
    \/ Construct(ConfigurationInputs)
    \/ CallFactor(ParameterInputs)
    \/ CallGet(ParameterInputs)
    \/ CallFlowUnitName
    \/ CallMassUnitName
    \/ Done

SpecLabels == Init /\ [][NextLabels]_vars

(***************************************************************************)
(* One object shared by several callers, without a lock.  The object is    *)
(* built once; `call` and `result` keep the constructor's call and the     *)
(* object it returned.  Each caller runs to_si, from_si or get in its own  *)
(* frame, a statement at a time, and the callers' statements interleave.   *)
(***************************************************************************)
SharedValues == {XFloat(MaxMantissa, MaxExponent)}

SharedParameters == {P("FLOW"), P("PRESSURE"), P("WALL_REACTION_COEFFICIENT"), None}

SharedConfigurations ==
    {<<Member("FlowUnit", "GPM"), Member("HeadlossFormula", "HAZEN_WILLIAMS"),
       Member("MassUnit", "MG"), Member("WallReactionOrder", "ZERO")>>,
     <<Member("FlowUnit", "LPS"), Member("HeadlossFormula", "DARCY_WEISBACH"),
       Member("MassUnit", "UG"), Member("WallReactionOrder", "ONE")>>,
     <<Member("FlowUnit", "AFD"), Member("HeadlossFormula", "DARCY_WEISBACH"),
       Member("MassUnit", "UG"), Member("WallReactionOrder", "ZERO")>>,
     <<Member("FlowUnit", "LPS"), Member("HeadlossFormula", "HAZEN_WILLIAMS"),
       Member("MassUnit", "MG"), None>>,
     <<Member("FlowUnit", "MLD"), Member("HeadlossFormula", "DARCY_WEISBACH"),
       Member("MassUnit", "UG")>>,
     <<Member("FlowUnit", "CFS"), Member("HeadlossFormula", "HAZEN_WILLIAMS")>>}

\* a caller's frame in a call: where it is, the method, its arguments
Frame(pc, op, args) == [pc |-> pc, op |-> op, args |-> args]

\* a caller enters self.to_si(value, parameter)
InvokeToSi(values, parameters) ==
    /\ self # None
    /\ \E c \in Callers :
          /\ frames[c] = Idle
          /\ \E v \in values, p \in parameters :
                frames' = [frames EXCEPT ![c] = Frame("called", "to_si", <<v, p>>)]
    /\ UNCHANGED <<self, call, result, arith>>

\* a caller enters self.from_si(value, parameter)
InvokeFromSi(values, parameters) ==
    /\ self # None
    /\ \E c \in Callers :
          /\ frames[c] = Idle
          /\ \E v \in values, p \in parameters :
                frames' = [frames EXCEPT ![c] = Frame("called", "from_si", <<v, p>>)]
    /\ UNCHANGED <<self, call, result, arith>>

\* a caller enters self.get(parameter)
InvokeGet(parameters) ==
    /\ self # None
    /\ \E c \in Callers :
          /\ frames[c] = Idle
          /\ \E p \in parameters :
                frames' = [frames EXCEPT ![c] = Frame("called", "get", <<p>>)]
    /\ UNCHANGED <<self, call, result, arith>>

\* _factor that keeps the factor it found in the object, for the next call
StepFactor_memoising ==
    /\ \E c \in Callers :
          /\ frames[c].pc = "called"
          /\ frames[c].op \in {"to_si", "from_si"}
          /\ LET factor == _factor(self, frames[c].args[2])
             IN  /\ frames' = [frames EXCEPT ![c] =
                        [pc |-> "factor", op |-> @.op, args |-> @.args, factor |-> factor]]
                 /\ self' = IF Returned(factor)
                            THEN [self EXCEPT !.flow_unit_factor = factor.val]
                            ELSE self
    /\ UNCHANGED <<call, result, arith>>

\* factor = self._factor(parameter): the statement reads the shared object
StepFactor ==
    /\ \E c \in Callers :
          /\ frames[c].pc = "called"
          /\ frames[c].op \in {"to_si", "from_si"}
          /\ frames' = [frames EXCEPT ![c] =
                [pc |-> "factor", op |-> @.op, args |-> @.args,
                 factor |-> _factor(self, @.args[2])]]
    /\ UNCHANGED <<self, call, result, arith>>

\* return value * factor, return value / factor, or the exception of
\* _factor going on to the caller
Outcome(op, value, factor) ==
    IF Raised(factor) THEN factor
    ELSE IF op = "to_si" THEN Return(Mul(value, factor.val))
    ELSE IF IsZero(factor.val) THEN Raise("ZeroDivisionError", None)
    ELSE Return(Div(value, factor.val))

StepReturn ==
    /\ \E c \in Callers :
          /\ frames[c].pc = "factor"
          /\ frames' = [frames EXCEPT ![c] =
                [pc |-> "done", op |-> @.op, args |-> @.args,
                 result |-> Outcome(@.op, @.args[1], @.factor)]]
    /\ UNCHANGED <<self, call, result, arith>>

\* the body of get, which reads the shared object
StepGet ==
    /\ \E c \in Callers :
          /\ frames[c].pc = "called"
          /\ frames[c].op = "get"
          /\ frames' = [frames EXCEPT ![c] =
                [pc |-> "done", op |-> @.op, args |-> @.args,
                 result |-> get(self, @.args[1])]]
    /\ UNCHANGED <<self, call, result, arith>>

\* the caller takes the outcome of its call
Take ==
    /\ \E c \in Callers :
          /\ frames[c].pc = "done"
          /\ frames' = [frames EXCEPT ![c] = Idle]
    /\ UNCHANGED <<self, call, result, arith>>

NextShared ==
    \/ Construct(SharedConfigurations)
    \/ InvokeToSi(SharedValues, SharedParameters)
    \/ InvokeFromSi(SharedValues, SharedParameters)
    \/ InvokeGet(SharedParameters)
    \/ StepFactor
    \/ StepReturn
    \/ StepGet
    \/ Take

SpecShared == Init /\ [][NextShared]_vars

(***************************************************************************)
(* Valves: a converter is built and the settings of valves are exported    *)
(* with it.                                                                *)
(***************************************************************************)
\* the curve of a general purpose valve
Curves == {Str("C1")}

\* valve_type.setting_field
CallSettingField ==
    /\ call = NoCall
    /\ \E valve_type \in ValveType :
          /\ call' = Call("setting_field", <<valve_type>>, None)
          /\ result' = setting_field(valve_type)
    /\ UNCHANGED <<self, arith, frames>>

\* a valve with an SI setting, or with a curve, is exported
ExportSetting(values) ==
    /\ self # None
    /\ call = NoCall
    /\ \E valve_type \in ValveType :
          \E setting \in (IF valve_type = Member("ValveType", "GPV") THEN Curves ELSE values) :
              /\ call' = Call("export_setting", <<setting, valve_type>>, None)
              /\ result' = export_setting(self, valve_type, setting)
    /\ UNCHANGED <<self, arith, frames>>

NextValves ==
    \/ Construct(ConfigurationInputs)
    \/ CallSettingField
    \/ ExportSetting(Values)
    \/ Done

SpecValves == Init /\ [][NextValves]_vars

(***************************************************************************)
(* Import: a .inp file is imported once; `self` becomes the                *)
(* SpecificUnitNames the layers are written with.                          *)
(***************************************************************************)
\* the options a .inp file can hold
InpOptions ==
    [flow_unit : FlowUnit, headloss_formula : HeadlossFormula,
     demand_multiplier : {XWhole(1), XFloat(5, -1)},
     mass_unit : MassUnit, wall_reaction_order : WallReactionOrder]

\* what _load_inp does: the file is read, is missing, or is no EPANET file
Loaded ==
    {Return(o) : o \in InpOptions}
        \cup {Raise("QgsProcessingException", Str(".inp file does not exist")),
              Raise("QgsProcessingException", Str("error reading .inp file"))}

\* the parameters of a run: UNITS left out, None, or the index chosen
ImportParameters ==
    {[INPUT |-> "net.inp"]}
        \cup {[INPUT |-> "net.inp", UNITS |-> u] :
                u \in {None} \cup {PyInt(i) : i \in 0..(Len(FlowUnitNames) - 1)}}

ImportInp(parameterSets, files) ==
    /\ self = None
    /\ call = NoCall
    /\ \E parameters \in parameterSets, loaded \in files :
          /\ call' = Call("processAlgorithm", <<parameters, loaded>>, None)
          /\ result' = ImportInp_processAlgorithm(parameters, loaded)
          /\ self' = IF Raised(loaded) THEN None
                     ELSE ImportInp_output(parameters, loaded.val).units
    /\ UNCHANGED <<arith, frames>>

NextImport ==
    \/ ImportInp(ImportParameters, Loaded)
    \/ CallGet(ParameterInputs)
    \/ Done

SpecImport == Init /\ [][NextImport]_vars

(***************************************************************************)
(* Patterns: a Pattern is made from a text, an iterable or None, written   *)
(* as text by options_to_param_values (str(options.energy_pattern)) and    *)
(* read back by _get_model_options (Pattern(parameterAsString(...))).      *)
(***************************************************************************)
PatternWords == {"0.5", "1", "1.50", "-0.0", "1e16", "1e-5", "inf", "nan", "x"}

RECURSIVE WordLists(_)
WordLists(n) ==
    IF n = 0 THEN {<<>>}
    ELSE WordLists(n - 1) \cup {Append(ws, w) : ws \in WordLists(n - 1), w \in PatternWords}

\* the words with one or two blanks or a tab between them, bare or padded
PatternTexts ==
    {Str(pad \o join(sep, ws) \o pad) :
        pad \in {"", " "}, sep \in {" ", "  ", "\t"}, ws \in WordLists(MaxItems)}

\* items of an iterable: floats, a str, None
PatternItems ==
    {Finite(1, 5, -1), Finite(1, 1, 0), Finite(-1, 15, 2), Infinite(-1), NaN(0), Str("2"), None}

RECURSIVE ItemLists(_)
ItemLists(n) ==
    IF n = 0 THEN {<<>>}
    ELSE ItemLists(n - 1) \cup {Append(xs, x) : xs \in ItemLists(n - 1), x \in PatternItems}

PatternInputs ==
    PatternTexts \cup {Tuple(xs) : xs \in ItemLists(MaxItems)}
        \cup {None, Member("FlowUnit", "LPS")}

\* Pattern(pattern)
NewPattern(patterns) ==
    /\ call = NoCall
    /\ \E pattern \in patterns :
          /\ call' = Call("Pattern", <<pattern>>, None)
          /\ result' = Pattern__new__(pattern, 0)
    /\ UNCHANGED <<self, arith, frames>>

\* str(p) of the pattern just made
CallStr ==
    /\ call.op = "Pattern"
    /\ call.source = None
    /\ Returned(result)
    /\ call' = Call("__str__", <<result.val>>, None)
    /\ result' = Return(Pattern__str__(result.val))
    /\ UNCHANGED <<self, arith, frames>>

\* Pattern(text) of the text str(p) has just returned; its floats are new objects
PatternOfStr ==
    /\ call.op = "__str__"
    /\ call' = Call("Pattern", <<result.val>>, [op |-> call.op, args |-> call.args])
    /\ result' = Pattern__new__(result.val, MaxItems)
    /\ UNCHANGED <<self, arith, frames>>

NextPattern ==
    \/ NewPattern(PatternInputs)
    \/ CallStr
    \/ PatternOfStr
    \/ Done

SpecPattern == Init /\ [][NextPattern]_vars

(***************************************************************************)
(* Runs of the two processing algorithms.  The framework calls             *)
(* prepareAlgorithm and, when that has returned, processAlgorithm; `self`  *)
(* is the algorithm with the world it runs in and what prepareAlgorithm    *)
(* has done, and the frame of the first caller holds the position of       *)
(* processAlgorithm: the stage it is about to enter, the steps taken so    *)
(* far and the outputs collected.  _describe_model only reports to the     *)
(* feedback and is left out.                                               *)
(***************************************************************************)
Algorithms == {"RunSimulation", "ExportInpFile"}

Environments ==
    [wntr : {"installed", "missing"},
     energy_pattern : {Str("1 2"), Str("x")},
     from_qgis : {"ok", "NetworkModelError"},
     check_network : {"ok", "NetworkModelError"},
     options_to_wn : {"ok", "ValueError"},
     run_sim : {"ok", "EpanetException"},
     main_thread : BOOLEAN]

Run == frames[1]

Running == call.op = "processAlgorithm" /\ Run.pc = "running"

Prepare(algorithms, environments) ==
    /\ call = NoCall
    /\ Run = Idle
    /\ \E cls \in algorithms, env \in environments :
        /\ self' = [cls |-> cls, env |-> env,
                    settings |-> prepareAlgorithm(env).written,
                    prepared |-> prepareAlgorithm(env).base]
        /\ call' = Call("prepareAlgorithm", <<Str(cls)>>, None)
        /\ result' = prepareAlgorithm(env).outcome
    /\ UNCHANGED <<arith, frames>>

Process ==
    /\ call.op = "prepareAlgorithm"
    /\ Returned(result)
    /\ self.prepared
    /\ call' = Call("processAlgorithm", <<Str(self.cls)>>, None)
    /\ frames' = [frames EXCEPT ![1] = [pc |-> "running", stage |-> 1, log |-> <<>>,
                                        outputs |-> {}]]
    /\ UNCHANGED <<self, result, arith>>

\* the frame after a stage: an exception leaves processAlgorithm, a value
\* of one of the writing stages is the outputs
AfterStage(frame, name, done) ==
    [pc |-> IF Raised(done.outcome) THEN "raised" ELSE "running",
     stage |-> frame.stage + 1,
     log |-> frame.log \o done.trace,
     outputs |-> IF Returned(done.outcome)
                    /\ name \in {"write_output_result_layers", "write_inp_file"}
                 THEN done.outcome.val ELSE frame.outputs]

StepStage ==
    /\ Running
    /\ Run.stage <= Len(Stages(self.cls))
    /\ frames' = [frames EXCEPT ![1] =
            AfterStage(Run, Stages(self.cls)[Run.stage],
                       Stage(Stages(self.cls)[Run.stage], self.env))]
    /\ result' = IF Raised(Stage(Stages(self.cls)[Run.stage], self.env).outcome)
                 THEN Stage(Stages(self.cls)[Run.stage], self.env).outcome
                 ELSE result
    /\ UNCHANGED <<self, call, arith>>

ReturnOutputs ==
    /\ Running
    /\ Run.stage > Len(Stages(self.cls))
    /\ frames' = [frames EXCEPT ![1].pc = "returned"]
    /\ result' = Return(Run.outputs)
    /\ UNCHANGED <<self, call, arith>>

NextRun ==
    \/ Prepare(Algorithms, Environments)
    \/ Process
    \/ StepStage
    \/ ReturnOutputs
    \/ Done

SpecRun == Init /\ [][NextRun]_vars

(***************************************************************************)
(* Uses of logger_to_feedback.  `self` is the state of the logging module; *)
(* each caller is a thread with the blocks it has open, innermost last.  A *)
(* block holds the name of its logger, its handler, and the value of       *)
(* `propagate` found when it was entered.                                  *)
(***************************************************************************)
Blocks(c) == IF frames[c].pc = "with" THEN frames[c].blocks ELSE <<>>

\* the FeedbackHandler made by the block that caller c opens next
FeedbackHandler(c) == [cls |-> "FeedbackHandler", caller |-> c, depth |-> Len(Blocks(c)) + 1]

RECURSIVE Open(_)
\* the number of blocks open in the callers 1..c
Open(c) == IF c = 0 THEN 0 ELSE Len(Blocks(c)) + Open(c - 1)

WithBlocks(blocks) == IF blocks = <<>> THEN Idle ELSE [pc |-> "with", blocks |-> blocks]

ImportLogging ==
    /\ self = None
    /\ call = NoCall
    /\ self' = [loggers |-> [n \in LoggerNames |-> getLogger]]
    /\ call' = Call("import logging", <<>>, None)
    /\ UNCHANGED <<result, arith, frames>>

LoggingCall == call.op \in {"import logging", "__enter__", "__exit__"}

Enter(names) ==
    /\ LoggingCall
    /\ \E c \in Callers, n \in names :
        /\ Open(NCallers) < MaxDepth
        /\ self' = [loggers |-> logger_to_feedback_enter(self.loggers, n, FeedbackHandler(c))]
        /\ frames' = [frames EXCEPT ![c] =
                WithBlocks(Append(Blocks(c),
                    [name |-> n, handler |-> FeedbackHandler(c),
                     before |-> self.loggers[n].propagate]))]
        /\ call' = Call("__enter__", <<Str(n), FeedbackHandler(c)>>, None)
        /\ result' = Return(None)
    /\ UNCHANGED arith

\* the innermost block of a caller is left, by its end or by an exception
\* that goes on to the caller
Exit(raises) ==
    /\ LoggingCall
    /\ \E c \in Callers, raised \in raises :
        /\ Blocks(c) # <<>>
        /\ self' = [loggers |->
                logger_to_feedback_exit(self.loggers, Blocks(c)[Len(Blocks(c))].name,
                                        Blocks(c)[Len(Blocks(c))].handler, raised)]
        /\ frames' = [frames EXCEPT ![c] = WithBlocks(SubSeq(Blocks(c), 1, Len(Blocks(c)) - 1))]
        /\ call' = Call("__exit__", <<Blocks(c)[Len(Blocks(c))], raised>>, None)
        /\ result' = IF raised THEN Raise("Exception", None) ELSE Return(None)
    /\ UNCHANGED arith

NextLogger ==
    \/ ImportLogging
    \/ Enter(LoggerNames)
    \/ Exit(BOOLEAN)

SpecLogger == Init /\ [][NextLogger]_vars

(***************************************************************************)
(* Vocabulary of the properties.  The factors they name are written in     *)
(* exact arithmetic, the arithmetic of Spec.                               *)
(***************************************************************************)
Built == self # None

\* the parameter argument of the last call to _factor, to_si or from_si
CallParameter == call.args[Len(call.args)]

\* the value argument of the last call to to_si or from_si
CallValue == call.args[1]

ConverterCall == call.op \in {"_factor", "to_si", "from_si"}

\* the converter was built from a member of each of the four enums
EnumConfiguration ==
    /\ self.flow_units \in FlowUnit
    /\ self.headloss_formula \in HeadlossFormula
    /\ self.mass_unit \in MassUnit
    /\ self.wall_reaction_order \in WallReactionOrder

TraditionalNames == {"CFS", "GPM", "MGD", "IMGD", "AFD"}

MetricNames == {"LPS", "LPM", "MLD", "CMH", "CMD"}

Foot == XFloat(3048, -4)

PerDay == XFloat(86400, 0)

(***************************************************************************)
(* C1  Round trip.  As claimed: when to_si(v, p) has returned and its      *)
(* result is handed to from_si with the same parameter, from_si returns    *)
(* exactly v.  As amended: it returns exactly v in exact arithmetic; in    *)
(* doubles it returns v or one of the two doubles next to v, provided v    *)
(* and v * factor are normal doubles (neither overflow nor underflow).     *)
(***************************************************************************)
RoundTripDone == call.op = "from_si" /\ call.source # None

\* the v of the round trip, and the to_si(v, p) handed to from_si
RoundTripValue == call.source.args[1]

RoundTripSI == call.args[1]

DIsNormal(a) == BBitLen(a.m) = MantissaBits

\* the double next to a, away from zero
DNext(a) == DRound(a.sgn, BAdd(a.m, <<1>>), a.x, FALSE)

WithinOneUlp(a, b) == a = b \/ DNext(a) = b \/ DNext(b) = a

C1_RoundTrip ==
    RoundTripDone
        => /\ call.source.op = "to_si"
           /\ call.source.args[2] = CallParameter
           /\ result = Return(RoundTripValue)

C1_RoundTripUpToRounding ==
    RoundTripDone
        => /\ call.source.op = "to_si"
           /\ call.source.args[2] = CallParameter
           /\ Returned(result)
           /\ arith = "exact" => result.val = RoundTripValue
           /\ (arith = "ieee" /\ DIsNormal(RoundTripValue) /\ DIsNormal(RoundTripSI))
                 => WithinOneUlp(result.val, RoundTripValue)

C1_Witness ==
    /\ RoundTripDone
    /\ arith = "ieee"
    /\ self.flow_units = Member("FlowUnit", "CFS")
    /\ CallParameter = P("PRESSURE")
    /\ RoundTripValue = Float(1, -1)
    /\ Returned(result)
    /\ result.val # RoundTripValue

(***************************************************************************)
(* C2  Totality and positivity: for a converter built from members of the  *)
(* four enums, _factor of every member of Parameter returns a number that  *)
(* is strictly positive; it does not raise.                                *)
(***************************************************************************)
C2_FactorTotalPositive ==
    (call.op = "_factor" /\ CallParameter \in Parameters /\ EnumConfiguration)
        => /\ Returned(result)
           /\ IsNumber(result.val)
           /\ result.val.sgn = 1

C2_Witness ==
    /\ call.op = "_factor"
    /\ EnumConfiguration
    /\ CallParameter = P("CURRENCY")
    /\ Returned(result)

(***************************************************************************)
(* C3  Family consistency: the traditional flag of a converter is TRUE     *)
(* exactly for the flow units CFS, GPM, MGD, IMGD, AFD and FALSE exactly   *)
(* for LPS, LPM, MLD, CMH, CMD; every FlowUnit is in exactly one family.   *)
(***************************************************************************)
C3_FamilyConsistency ==
    /\ \A u \in FlowUnit : (u.name \in TraditionalNames) # (u.name \in MetricNames)
    /\ Built =>
        /\ self.flow_units \in FlowUnit
        /\ self.traditional = TRUE <=> self.flow_units.name \in TraditionalNames
        /\ self.traditional = FALSE <=> self.flow_units.name \in MetricNames

C3_Witness ==
    /\ Built
    /\ self.flow_units = Member("FlowUnit", "AFD")
    /\ self.traditional

(***************************************************************************)
(* C4  Headloss conditionality: the ROUGHNESS_COEFFICIENT factor is 1      *)
(* under Hazen-Williams and Chezy-Manning; under Darcy-Weisbach it is      *)
(* 0.001 for a metric flow unit and 0.001 x 0.3048 for a traditional one.  *)
(***************************************************************************)
C4_RoughnessConditionality ==
    (call.op = "_factor" /\ CallParameter = P("ROUGHNESS_COEFFICIENT") /\ EnumConfiguration)
        => result = Return(
              IF self.headloss_formula.name \in {"HAZEN_WILLIAMS", "CHEZY_MANNING"}
                  THEN XWhole(1)
              ELSE IF self.flow_units.name \in MetricNames THEN XFloat(1, -3)
              ELSE XFloat(3048, -7))

C4_Witness ==
    /\ call.op = "_factor"
    /\ CallParameter = P("ROUGHNESS_COEFFICIENT")
    /\ EnumConfiguration
    /\ self.headloss_formula.name = "CHEZY_MANNING"
    /\ self.traditional
    /\ Returned(result)

(***************************************************************************)
(* C5  Wall-order distinctness: the WALL_REACTION_COEFFICIENT factor of a  *)
(* converter differs from that of the converter built with the same flow   *)
(* unit, headloss formula and mass unit and the other wall reaction order. *)
(***************************************************************************)
OtherOrder(o) ==
    IF o.name = "ZERO" THEN Member("WallReactionOrder", "ONE")
    ELSE Member("WallReactionOrder", "ZERO")

C5_WallOrderDistinct ==
    (call.op = "_factor" /\ CallParameter = P("WALL_REACTION_COEFFICIENT") /\ EnumConfiguration)
        => LET other == __init__(self.flow_units, self.headloss_formula, self.mass_unit,
                                 OtherOrder(self.wall_reaction_order))
           IN  /\ Returned(result)
               /\ Returned(other)
               /\ Returned(_factor(other.val, CallParameter))
               /\ _factor(other.val, CallParameter).val # result.val

C5_Witness ==
    /\ call.op = "_factor"
    /\ CallParameter = P("WALL_REACTION_COEFFICIENT")
    /\ EnumConfiguration
    /\ self.wall_reaction_order.name = "ZERO"
    /\ self.traditional
    /\ Returned(result)

(***************************************************************************)
(* C6  Fixed factors: in every converter the factor of ENERGY is 3600000,  *)
(* of WATER_AGE 3600 and of BULK_REACTION_COEFFICIENT 1/86400.             *)
(***************************************************************************)
C6_FixedFactors ==
    (call.op = "_factor") =>
        /\ CallParameter = P("ENERGY") => result = Return(XWhole(3600000))
        /\ CallParameter = P("WATER_AGE") => result = Return(XWhole(3600))
        /\ CallParameter = P("BULK_REACTION_COEFFICIENT") => result = Return(XDiv(XWhole(1), PerDay))

C6_Witness ==
    /\ call.op = "_factor"
    /\ CallParameter = P("BULK_REACTION_COEFFICIENT")
    /\ self.traditional
    /\ self.mass_unit.name = "UG"
    /\ Returned(result)

(***************************************************************************)
(* C7  Flow factor table: the FLOW factor is the table value of the flow   *)
(* unit; so under LPS to_si(10, FLOW) = 0.01 and from_si(0.01, FLOW) = 10, *)
(* and under CMH from_si(10, FLOW) = 36000.                                *)
(***************************************************************************)
\* the table, per flow unit name, in cubic metres per second
Gallon == XMul(XWhole(8), XFloat(473176473, -12))

ImperialGallon == XFloat(454609, -8)

AcreFoot == XFloat(123348184, -5)

FlowTable ==
    [n \in TraditionalNames \cup MetricNames |->
        CASE n = "CFS" -> XFloat(283168466, -10)
          [] n = "GPM" -> XDiv(Gallon, XWhole(60))
          [] n = "MGD" -> XDiv(XMul(XWhole(1000000), Gallon), PerDay)
          [] n = "IMGD" -> XDiv(XMul(XWhole(1000000), ImperialGallon), PerDay)
          [] n = "AFD" -> XDiv(AcreFoot, PerDay)
          [] n = "LPS" -> XDiv(XWhole(1), XWhole(1000))
          [] n = "LPM" -> XDiv(XWhole(1), XWhole(60000))
          [] n = "MLD" -> XDiv(XWhole(1000), PerDay)
          [] n = "CMH" -> XDiv(XWhole(1), XWhole(3600))
          [] n = "CMD" -> XDiv(XWhole(1), PerDay)]

C7_FlowTable ==
    (ConverterCall /\ CallParameter = P("FLOW")) =>
        /\ call.op = "_factor" => result = Return(FlowTable[self.flow_units.name])
        /\ (call.op = "to_si" /\ self.flow_units.name = "LPS" /\ CallValue = XWhole(10))
              => result = Return(XFloat(1, -2))
        /\ (call.op = "from_si" /\ self.flow_units.name = "LPS" /\ CallValue = XFloat(1, -2))
              => result = Return(XWhole(10))
        /\ (call.op = "from_si" /\ self.flow_units.name = "CMH" /\ CallValue = XWhole(10))
              => result = Return(XWhole(36000))

C7_Witness ==
    /\ call.op = "from_si"
    /\ call.source = None
    /\ CallParameter = P("FLOW")
    /\ self.flow_units.name = "CMH"
    /\ CallValue = XWhole(10)
    /\ Returned(result)

(***************************************************************************)
(* C8  Family-driven kinds: the factors of length, pipe diameter,          *)
(* velocity, power, pressure and volume are fixed by the family flag       *)
(* alone: pipe diameter 0.0254 / 0.001, pressure 0.3048/0.4333 / 1,        *)
(* length and velocity 0.3048 / 1, power 745.699872 / 1000, volume         *)
(* 0.3048^3 / 1 (traditional / metric).                                    *)
(***************************************************************************)
FamilyKinds == {"LENGTH", "PIPE_DIAMETER", "VELOCITY", "POWER", "PRESSURE", "VOLUME"}

FamilyTable ==
    [n \in FamilyKinds |->
        CASE n = "LENGTH" -> <<Foot, XWhole(1)>>
          [] n = "PIPE_DIAMETER" -> <<XFloat(254, -4), XFloat(1, -3)>>
          [] n = "VELOCITY" -> <<Foot, XWhole(1)>>
          [] n = "POWER" -> <<XFloat(745699872, -6), XWhole(1000)>>
          [] n = "PRESSURE" -> <<XDiv(XWhole(3048), XWhole(4333)), XWhole(1)>>
          [] n = "VOLUME" -> <<XMul(Foot, XMul(Foot, Foot)), XWhole(1)>>]

C8_FamilyDrivenKinds ==
    (call.op = "_factor" /\ CallParameter \in {P(n) : n \in FamilyKinds})
        => result = Return(FamilyTable[CallParameter.name][IF self.traditional THEN 1 ELSE 2])

C8_Witness ==
    /\ call.op = "_factor"
    /\ CallParameter = P("PRESSURE")
    /\ self.traditional
    /\ self.headloss_formula.name = "DARCY_WEISBACH"
    /\ self.mass_unit.name = "UG"
    /\ Returned(result)

(***************************************************************************)
(* C9  Unknown parameter: in every converter, _factor, to_si and from_si   *)
(* called with a value that is no member of Parameter raise ValueError     *)
(* carrying that value; they return nothing.                               *)
(***************************************************************************)
C9_UnknownParameterRaises ==
    (ConverterCall /\ CallParameter \notin Parameters)
        => result = Raise("ValueError", CallParameter)

C9_Witness ==
    /\ call.op = "to_si"
    /\ CallParameter = Member("SimpleFieldType", "STR")
    /\ Raised(result)

(***************************************************************************)
(* C10  Construction.  As claimed: a Converter fails to be built exactly   *)
(* when one of its four arguments is outside its enum.  As amended:        *)
(* exactly when the flow unit or the mass unit is outside its enum, with   *)
(* ValueError carrying the flow unit if that is the invalid one and the    *)
(* mass unit otherwise, and no object produced; a headloss formula or a    *)
(* wall reaction order outside its enum is stored as given.                *)
(***************************************************************************)
ArgFlowUnit == call.args[1]

ArgHeadlossFormula == call.args[2]

ArgMassUnit == Arguments(call.args)[3]

ArgWallReactionOrder == Arguments(call.args)[4]

ConstructedFromTwo == call.op = "__init__" /\ Len(call.args) = 2 /\ Returned(result)

\* the converter built from the two arguments of the call, MG and ONE
WithMgAndOne ==
    __init__(call.args[1], call.args[2],
             Member("MassUnit", "MG"), Member("WallReactionOrder", "ONE"))

C11_ConstructorDefaults ==
    ConstructedFromTwo
        => /\ Returned(WithMgAndOne)
           /\ self.mass_unit = Member("MassUnit", "MG")
           /\ self.wall_reaction_order = Member("WallReactionOrder", "ONE")
           /\ \A p \in Parameters :
                 /\ _factor(self, p) = _factor(WithMgAndOne.val, p)
                 /\ get(self, p) = get(WithMgAndOne.val, p)
                 /\ p = P("WALL_REACTION_COEFFICIENT")
                       => /\ _factor(self, p)
                               = Return(IF self.traditional THEN XDiv(XFloat(3048, -4), XWhole(86400))
                                        ELSE XDiv(XWhole(1), XWhole(86400)))
                          /\ get(self, p) = Return(IF self.traditional THEN "ft/day" ELSE "m/day")

C11_Witness ==
    /\ ConstructedFromTwo
    /\ call.args = <<Member("FlowUnit", "GPM"), Member("HeadlossFormula", "HAZEN_WILLIAMS")>>

(***************************************************************************)
(* C12  Label lock-step, factor => label: for every member of Parameter    *)
(* and every two configurations, when the factors of the parameter differ  *)
(* the labels get returns differ as well.                                  *)
(***************************************************************************)
Configurations == FlowUnit \X HeadlossFormula \X MassUnit \X WallReactionOrder

\* the SpecificUnitNames of a configuration
Configured(c) == __init__(c[1], c[2], c[3], c[4]).val

\* get was called, with a member of Parameter, on an object configured with a
\* member of each enum
GetCall == call.op = "get" /\ CallParameter \in Parameters /\ EnumConfiguration

C12_FactorImpliesLabel ==
    GetCall
        => LET factor == _factor(self, CallParameter)
           IN  \A c \in Configurations :
                  LET other == Configured(c)
                  IN  factor # _factor(other, CallParameter)
                          => result # get(other, CallParameter)

C12_Witness ==
    /\ GetCall
    /\ CallParameter = P("POWER")
    /\ self.traditional
    /\ result = Return("hp")
    /\ \E c \in Configurations :
          _factor(self, CallParameter) # _factor(Configured(c), CallParameter)

(***************************************************************************)
(* C13  Label lock-step, label => factor.  As claimed: for every member of *)
(* Parameter and every two configurations, when the labels differ the      *)
(* factors differ.  As amended: this holds of every parameter but          *)
(* UNIT_HEADLOSS, whose label follows the family (ft/1000 ft, m/1000 m)    *)
(* while its factor is 0.001 in both.                                      *)
(***************************************************************************)
C13_LabelImpliesFactor ==
    GetCall
        => LET factor == _factor(self, CallParameter)
           IN  \A c \in Configurations :
                  LET other == Configured(c)
                  IN  result # get(other, CallParameter)
                          => factor # _factor(other, CallParameter)

C13_LabelImpliesFactorButUnitHeadloss ==
    GetCall
        => LET factor == _factor(self, CallParameter)
           IN  \A c \in Configurations :
                  LET other == Configured(c)
                  IN  IF CallParameter = P("UNIT_HEADLOSS")
                      THEN /\ factor = Return(XFloat(1, -3))
                           /\ _factor(other, CallParameter) = Return(XFloat(1, -3))
                           /\ result = Return(IF self.traditional THEN "ft/1000 ft  "
                                              ELSE "m/1000 m")
                           /\ (result # get(other, CallParameter))
                                  <=> (self.traditional # other.traditional)
                      ELSE result # get(other, CallParameter)
                              => factor # _factor(other, CallParameter)

C13_Witness ==
    /\ GetCall
    /\ CallParameter = P("UNIT_HEADLOSS")
    /\ self.traditional
    /\ result = Return("ft/1000 ft  ")

(***************************************************************************)
(* The generic resolver                                                    *)
(***************************************************************************)
\* `part` occurs in `label`
Contains(label, part) ==
    \E i \in 1..(Len(label) - Len(part) + 1) : SubSeq(label, i, i + Len(part) - 1) = part

\* UnitNames().get was called with a member of Parameter
UnitNamesGetCall == call.op = "UnitNames.get" /\ CallParameter \in Parameters

MassBasedKinds ==
    {P("CONCENTRATION"), P("REACTION_RATE"), P("SOURCE_MASS_INJECTION"),
     P("WALL_REACTION_COEFFICIENT")}

\* the names SpecificUnitNames.mass_unit_name gives a concrete mass unit
ConcreteMassNames == {"mg", "ug"}

\* C14: the generic resolver uses the placeholders wherever a concrete unit
\* would appear: get(FLOW) is "*flow*", the EMITTER_COEFFICIENT label contains
\* "*flow*", and the labels of CONCENTRATION, REACTION_RATE,
\* SOURCE_MASS_INJECTION and WALL_REACTION_COEFFICIENT contain "*mass*" and
\* the name of no concrete mass unit.
C14_GenericPlaceholders ==
    UnitNamesGetCall =>
        /\ CallParameter = P("FLOW") => result = Return("*flow*")
        /\ CallParameter = P("EMITTER_COEFFICIENT") =>
              Returned(result) /\ Contains(result.val, "*flow*")
        /\ CallParameter \in MassBasedKinds =>
              /\ Returned(result)
              /\ Contains(result.val, "*mass*")
              /\ \A name \in ConcreteMassNames : ~Contains(result.val, name)

\* the flow half of C14, which the code meets
C14_FlowPlaceholders ==
    UnitNamesGetCall =>
        /\ CallParameter = P("FLOW") => result = Return("*flow*")
        /\ CallParameter = P("EMITTER_COEFFICIENT") =>
              Returned(result) /\ Contains(result.val, "*flow*")

C14_Witness ==
    /\ UnitNamesGetCall
    /\ CallParameter = P("CONCENTRATION")
    /\ result = Return("mg/L")

(***************************************************************************)
(* Frame                                                                   *)
(***************************************************************************)
\* a call of one of the methods of a built object
MethodCall ==
    call.op \in {"_factor", "to_si", "from_si", "get", "flow_unit_name", "mass_unit_name"}

\* the cached attributes are the values __init__ derives from the stored units
CachedAsDerived ==
    /\ self.traditional = (self.flow_units \in _TRADITIONAL_FLOW_UNITS)
    /\ Return(self.flow_unit_factor) = _flow_unit_factor(self.flow_units)
    /\ Return(self.mass_unit_factor) = _mass_unit_factor(self.mass_unit)

\* C15: once the object is built, no step (a call of to_si, from_si, _factor,
\* get, flow_unit_name or mass_unit_name, returning or raising, or the caller
\* taking its outcome) changes any of the seven attributes, and in every state
\* the traditional flag and the two cached factors are the values derived
\* from the stored flow unit and mass unit.
C15_NoSideEffects ==
    /\ [](Built => CachedAsDerived)
    /\ [][Built => self' = self]_vars

C15_Witness ==
    /\ Built
    /\ call.op = "to_si"
    /\ Raised(result)
    /\ CachedAsDerived

(***************************************************************************)
(* Sharing                                                                 *)
(***************************************************************************)
\* the object as __init__ returned it
AsBuilt == result.val

\* what the call of a frame returns when it runs alone on the object as built
Alone(frame) ==
    IF frame.op = "to_si" THEN to_si(AsBuilt, frame.args[1], frame.args[2])
    ELSE IF frame.op = "from_si" THEN from_si(AsBuilt, frame.args[1], frame.args[2])
    ELSE get(AsBuilt, frame.args[1])

\* C16: with several callers in to_si, from_si and get on one object at once,
\* under every interleaving of their statements the object is the one
\* __init__ built, the factor a call has read is the factor of that object,
\* and every finished call has the outcome it has when run alone.
C16_Shareable ==
    Built =>
        /\ self = AsBuilt
        /\ \A c \in Callers :
              /\ frames[c].pc = "factor" =>
                    frames[c].factor = _factor(AsBuilt, frames[c].args[2])
              /\ frames[c].pc = "done" => frames[c].result = Alone(frames[c])

\* one caller has finished a conversion while another is between the two
\* statements of from_si
C16_Witness ==
    /\ Built
    /\ \E c, d \in Callers :
          /\ c # d
          /\ frames[c].pc = "done"
          /\ frames[c].op = "to_si"
          /\ Returned(frames[c].result)
          /\ frames[d].pc = "factor"
          /\ frames[d].op = "from_si"

(***************************************************************************)
(* Mass-based factors                                                      *)
(***************************************************************************)
\* kilograms in a mass unit
MassUnitFactor(mass_unit) ==
    IF mass_unit = Member("MassUnit", "MG") THEN XFloat(1, -6) ELSE XFloat(1, -9)

MassFactorKinds == {P("CONCENTRATION"), P("REACTION_RATE"), P("SOURCE_MASS_INJECTION")}

MassFactorTable(mass_unit) ==
    [n \in {p.name : p \in MassFactorKinds} |->
        CASE n = "CONCENTRATION" -> XDiv(MassUnitFactor(mass_unit), XFloat(1, -3))
          [] n = "REACTION_RATE" ->
                XDiv(XDiv(MassUnitFactor(mass_unit), XFloat(1, -3)), XWhole(86400))
          [] n = "SOURCE_MASS_INJECTION" -> XDiv(MassUnitFactor(mass_unit), XWhole(60))]

\* C17: with 1e-6 kg for MG and 1e-9 kg for UG, the factor of CONCENTRATION
\* is the mass unit factor / 0.001, of REACTION_RATE that / 86400, of
\* SOURCE_MASS_INJECTION the mass unit factor / 60, in every configuration;
\* every configuration with the same mass unit has the same three factors.
C17_MassBasedFactors ==
    (call.op = "_factor" /\ CallParameter \in MassFactorKinds /\ EnumConfiguration) =>
        /\ self.mass_unit_factor = MassUnitFactor(self.mass_unit)
        /\ result = Return(MassFactorTable(self.mass_unit)[CallParameter.name])
        /\ \A c \in Configurations :
              c[3] = self.mass_unit => _factor(Configured(c), CallParameter) = result

C17_Witness ==
    /\ call.op = "_factor"
    /\ CallParameter = P("REACTION_RATE")
    /\ self.mass_unit = Member("MassUnit", "UG")
    /\ self.traditional
    /\ result = Return(XDiv(XFloat(1, -6), XWhole(86400)))

(***************************************************************************)
(* Length-like kinds                                                       *)
(***************************************************************************)
LengthLikeNames == {"LENGTH", "ELEVATION", "HYDRAULIC_HEAD", "TANK_DIAMETER"}

\* C18: in every configuration _factor of Parameter.LENGTH, ELEVATION,
\* HYDRAULIC_HEAD and TANK_DIAMETER returns 0.3048 when traditional and 1.0
\* when metric, and get returns "ft" when traditional and "m" when metric;
\* none of the four raises.
C18_LengthLikeKinds ==
    \A n \in LengthLikeNames :
        /\ (call.op = "_factor" /\ CallParameter = P(n)) =>
              result = Return(IF self.traditional THEN Foot ELSE XWhole(1))
        /\ (call.op = "get" /\ CallParameter = P(n)) =>
              result = Return(IF self.traditional THEN "ft" ELSE "m")

C18_Witness ==
    /\ call.op = "_factor"
    /\ CallParameter = P("TANK_DIAMETER")
    /\ self.traditional
    /\ result = Return(Foot)

(***************************************************************************)
(* Emitter coefficient                                                     *)
(***************************************************************************)
EmitterCall == call.op = "_factor" /\ CallParameter = P("EMITTER_COEFFICIENT")

XSquare(a) == XMul(a, a)

\* C19: the EMITTER_COEFFICIENT factor is flow_unit_factor for a metric flow
\* unit and flow_unit_factor * (0.4333/0.3048)^0.5 for a traditional one; in
\* every configuration (emitter factor)^2 * (pressure factor) = (flow factor)^2.
C19_EmitterRule ==
    EmitterCall =>
        /\ result = Return(IF self.traditional
                           THEN XMul(self.flow_unit_factor,
                                     XPowHalves(XDiv(XFloat(4333, -4), Foot), 1))
                           ELSE self.flow_unit_factor)
        /\ XMul(XSquare(result.val), _factor(self, P("PRESSURE")).val)
              = XSquare(_factor(self, P("FLOW")).val)

C19_Witness ==
    /\ EmitterCall
    /\ self.flow_units = Member("FlowUnit", "GPM")
    /\ Returned(result)
    /\ result.val # self.flow_unit_factor

(***************************************************************************)
(* Wall reaction order                                                     *)
(***************************************************************************)
Wall == P("WALL_REACTION_COEFFICIENT")

\* the order-zero rule: mass per area per day to SI
OrderZeroRule(conv) ==
    IF conv.traditional THEN XDiv(XMul(conv.mass_unit_factor, XFloat(92903, -6)), PerDay)
    ELSE XDiv(conv.mass_unit_factor, PerDay)

\* the order-one rule: length per day to SI
OrderOneRule(conv) == IF conv.traditional THEN XDiv(Foot, PerDay) ELSE XDiv(XWhole(1), PerDay)

Conversion == call.op \in {"to_si", "from_si"}

\* C20: the WALL_REACTION_COEFFICIENT factor is the order-zero rule's exactly
\* when the stored wall reaction order is ZERO and the order-one rule's
\* exactly when it is ONE; with any other stored order (None) to_si and
\* from_si of WALL_REACTION_COEFFICIENT raise ValueError, and to_si and
\* from_si of every other member of Parameter return.
C20_WallOrderNeverDefaulted ==
    /\ (call.op = "_factor" /\ CallParameter = Wall) =>
          /\ self.wall_reaction_order = Member("WallReactionOrder", "ZERO")
                => result = Return(OrderZeroRule(self))
          /\ self.wall_reaction_order = Member("WallReactionOrder", "ONE")
                => result = Return(OrderOneRule(self))
          /\ Returned(result) => self.wall_reaction_order \in WallReactionOrder
    /\ (Conversion /\ self.wall_reaction_order \notin WallReactionOrder) =>
          /\ CallParameter = Wall => result = Raise("ValueError", Wall)
          /\ CallParameter \in Parameters \ {Wall} => Returned(result)

C20_Witness ==
    /\ call.op = "to_si"
    /\ CallParameter = Wall
    /\ self.wall_reaction_order = None
    /\ result = Raise("ValueError", Wall)

(***************************************************************************)
(* Dimensional consistency                                                 *)
(***************************************************************************)
FactorCall == call.op = "_factor"

\* the factor the built object gives the parameter named n
FactorOf(n) == _factor(self, P(n)).val

\* C28: in every configuration the volume factor is the cube of the length
\* factor, the velocity factor is the length factor, the order-one wall
\* reaction factor is the length factor times the bulk reaction factor, and
\* the reaction-rate factor is the concentration factor times the bulk
\* reaction factor.
C28_DimensionalConsistency ==
    FactorCall =>
        /\ CallParameter = P("VOLUME") =>
              result = Return(XMul(FactorOf("LENGTH"), XSquare(FactorOf("LENGTH"))))
        /\ CallParameter = P("VELOCITY") => result = Return(FactorOf("LENGTH"))
        /\ (CallParameter = Wall /\ self.wall_reaction_order = Member("WallReactionOrder", "ONE"))
              => result = Return(XMul(FactorOf("LENGTH"), FactorOf("BULK_REACTION_COEFFICIENT")))
        /\ CallParameter = P("REACTION_RATE") =>
              result = Return(XMul(FactorOf("CONCENTRATION"),
                                   FactorOf("BULK_REACTION_COEFFICIENT")))

C28_Witness ==
    /\ FactorCall
    /\ CallParameter = P("VOLUME")
    /\ self.traditional
    /\ result = Return(XMul(Foot, XFloat(9290304, -8)))

\* _factor was asked for the wall coefficient of an object with order ZERO
WallZeroCall ==
    /\ FactorCall
    /\ CallParameter = Wall
    /\ self.wall_reaction_order = Member("WallReactionOrder", "ZERO")

\* C29: in every configuration with wall order ZERO the
\* WALL_REACTION_COEFFICIENT factor is mass_unit_factor times the square of
\* the length factor times the bulk reaction factor.
C29_AreaIsLengthSquared ==
    WallZeroCall =>
        result = Return(XMul(XMul(self.mass_unit_factor, XSquare(FactorOf("LENGTH"))),
                             FactorOf("BULK_REACTION_COEFFICIENT")))

\* C29 as the code has it: with a metric flow unit the factor is
\* mass_unit_factor times the square of the length factor times the bulk
\* reaction factor; with a traditional one the area constant is 0.092903,
\* which is not the square of the length factor, 0.09290304.
C29_AreaIsRoundedSquare ==
    WallZeroCall =>
        /\ result = Return(XMul(XMul(self.mass_unit_factor,
                                     IF self.traditional THEN XFloat(92903, -6)
                                     ELSE XSquare(FactorOf("LENGTH"))),
                                FactorOf("BULK_REACTION_COEFFICIENT")))
        /\ self.traditional =>
              /\ XSquare(FactorOf("LENGTH")) = XFloat(9290304, -8)
              /\ XSquare(FactorOf("LENGTH")) # XFloat(92903, -6)

C29_Witness ==
    /\ WallZeroCall
    /\ self.traditional
    /\ self.mass_unit = Member("MassUnit", "MG")
    /\ result = Return(XDiv(XFloat(92903, -12), PerDay))

(***************************************************************************)
(* Pattern text                                                            *)
(***************************************************************************)
\* str(p) was called on the pattern p
StrCall == call.op = "__str__"

\* Pattern(str(p)) was called
ReadBack == call.op = "Pattern" /\ call.source # None

\* the pattern whose text was read back
Written == call.source.args[1]

\* C25: str(p) is the items of p as floats with single spaces between them,
\* Pattern(str(p)) == p for every pattern p, and Pattern(None) and
\* Pattern("") are the empty pattern, whose str is "".
C25_PatternRoundTrip ==
    /\ StrCall =>
          /\ Len(split(result.val.name)) = Len(call.args[1].items)
          /\ result.val.name = join(" ", split(result.val.name))
          /\ call.args[1].items = <<>> => result.val = Str("")
    /\ ReadBack => Returned(result) /\ tuple__eq__(result.val, Written)
    /\ (call.op = "Pattern" /\ call.args[1] \in {None, Str("")}) =>
          result = Return(PatternOf(<<>>))

\* the round trip of the patterns without a NaN, which the code meets
C25_RoundTripWithoutNaN ==
    /\ StrCall =>
          /\ Len(split(result.val.name)) = Len(call.args[1].items)
          /\ result.val.name = join(" ", split(result.val.name))
          /\ call.args[1].items = <<>> => result.val = Str("")
    /\ (ReadBack /\ \A i \in 1..Len(Written.items) : Written.items[i].kind # "nan")
          => Returned(result) /\ tuple__eq__(result.val, Written)
    /\ (call.op = "Pattern" /\ call.args[1] \in {None, Str("")}) =>
          result = Return(PatternOf(<<>>))

(***************************************************************************)
(* Valve settings                                                          *)
(***************************************************************************)
\* the setting field of each valve type and the kind that converts it
ValveTable ==
    [n \in {"PRV", "PSV", "PBV", "FCV", "TCV", "GPV"} |->
        CASE n \in {"PRV", "PSV", "PBV"} -> <<"PRESSURE_SETTING", "PRESSURE">>
          [] n = "FCV" -> <<"FLOW_SETTING", "FLOW">>
          [] n = "TCV" -> <<"THROTTLE_SETTING", "UNITLESS">>
          [] n = "GPV" -> <<"HEADLOSS_CURVE", "CURVE">>]

CallValveType == call.args[Len(call.args)]

Imported == call.op = "processAlgorithm" /\ Returned(result)

UnitsChosen == ParametersGet(call.args[1], "UNITS")

\* the options read from the file
Read_ == call.args[2].val

\* C21: when UNITS is set the options used for output have the flow unit
\* whose friendly name was shown at the chosen index and every other field
\* as read from the .inp file; when UNITS is not set they are the options
\* read from the file; the labels of the output are those of these options.
C21_ImportUnitSelection ==
    Imported =>
        /\ UnitsChosen # None =>
              /\ friendly_name(result.val.options_to_save.flow_unit) = UnitsOptions[UnitsChosen.val + 1]
              /\ result.val.options_to_save.flow_unit = FlowUnitList[UnitsChosen.val + 1]
              /\ \A f \in DOMAIN Read_ \ {"flow_unit"} : result.val.options_to_save[f] = Read_[f]
        /\ UnitsChosen = None => result.val.options_to_save = Read_
        /\ self.flow_units = result.val.options_to_save.flow_unit
        /\ self.mass_unit = Read_.mass_unit

\* the first unit of the list, index 0, is chosen for a file in GPM
C21_Witness ==
    /\ Imported
    /\ UnitsChosen = PyInt(0)
    /\ Read_.flow_unit = Member("FlowUnit", "GPM")
    /\ result.val.options_to_save.flow_unit = Member("FlowUnit", "LPS")
    /\ ~self.traditional

(***************************************************************************)
(* The stages of a run                                                     *)
(***************************************************************************)
IsPrefix(a, b) == Len(a) <= Len(b) /\ a = SubSeq(b, 1, Len(a))

\* the steps of Run Simulation in the order in which they are to be taken
RunOrder ==
    <<"_check_wntr", "_get_model_options", "from_qgis", "check_network", "options_to_wn",
      "run_sim", "write NODES", "write LINKS">>

\* the step fails in this world
Fails(step, env) ==
    \/ step = "_check_wntr" /\ env.wntr = "missing"
    \/ step = "_get_model_options" /\ env.energy_pattern = Str("x")
    \/ step = "from_qgis" /\ env.from_qgis = "NetworkModelError"
    \/ step = "check_network" /\ env.check_network = "NetworkModelError"
    \/ step = "options_to_wn" /\ env.options_to_wn = "ValueError"
    \/ step = "run_sim" /\ env.run_sim = "EpanetException"

Failing(order, env) == {i \in DOMAIN order : Fails(order[i], env)}

\* the steps up to and with the first one that fails, all of them when
\* none does
UpToFailure(order, env) ==
    IF Failing(order, env) = {} THEN order
    ELSE SubSeq(order, 1, CHOOSE i \in Failing(order, env) :
                              \A j \in Failing(order, env) : i <= j)

InRunSimulation == call.op = "processAlgorithm" /\ self.cls = "RunSimulation"

\* C22: RunSimulation.processAlgorithm takes its steps in the order
\* dependency check, model preparation (options, from_qgis, check_network,
\* options_to_wn), simulation, writing of NODES and of LINKS; a step is taken
\* only when every step before it has succeeded; a step that fails ends the
\* run with a QgsProcessingException and no later step is taken; a run that
\* returns has taken every step and returns the two result layers.
C22_StageOrder ==
    InRunSimulation =>
        /\ IsPrefix(Run.log, UpToFailure(RunOrder, self.env))
        /\ Run.pc = "raised" =>
              /\ Failing(RunOrder, self.env) # {}
              /\ Run.log = UpToFailure(RunOrder, self.env)
              /\ Raised(result)
              /\ result.exc = "QgsProcessingException"
        /\ Run.pc = "returned" =>
              /\ Failing(RunOrder, self.env) = {}
              /\ Run.log = RunOrder
              /\ result = Return({"NODES", "LINKS"})

\* a run whose model was prepared and whose simulation failed in EPANET:
\* nothing is written
C22_Witness ==
    /\ InRunSimulation
    /\ Run.pc = "raised"
    /\ self.env.run_sim = "EpanetException"
    /\ Run.log = SubSeq(RunOrder, 1, 6)
    /\ Run.outputs = {}
    /\ result.exc = "QgsProcessingException"

Exported ==
    call.op = "processAlgorithm" /\ self.cls = "ExportInpFile" /\ Run.pc = "returned"

\* C23: Export Inp File does what its help text states: it runs a
\* simulation on WNTR, its outputs are the layer of nodes and the layer of
\* links, and the .inp file is an output that may be added to them.
C23_ExportAsHelpText ==
    Exported =>
        /\ \E i \in DOMAIN Run.log : Run.log[i] = "run_sim"
        /\ shortHelpString(self.cls).outputs \subseteq result.val
        /\ result.val \subseteq
              shortHelpString(self.cls).outputs \cup shortHelpString(self.cls).optional
        /\ shortHelpString(self.cls).outputs \subseteq OutputParameters(self.cls)

\* what the algorithm does: the model is prepared and written to the .inp
\* file, which is the one output
C23_ExportWritesInpOnly ==
    Exported =>
        /\ Run.log = SubSeq(RunOrder, 1, 5) \o <<"write_inpfile">>
        /\ result = Return({"OUTPUT_INP"})
        /\ OutputParameters(self.cls) = {"OUTPUT_INP"}

C23_Witness == Exported /\ result = Return({"OUTPUT_INP"})

(***************************************************************************)
(* Saving the settings                                                     *)
(***************************************************************************)
AfterPrepare == call.op = "prepareAlgorithm"

AllSettings == {"MODEL_LAYERS", "options"}

\* C27 as stated: the settings (the MODEL_LAYERS mapping and the model
\* options) are written if and only if prepareAlgorithm runs on the main
\* thread, nothing is written on another thread, and in both cases the
\* prepareAlgorithm of the base class is then called.
C27_SavedIffMainThread ==
    AfterPrepare =>
        /\ self.settings = AllSettings <=> self.env.main_thread
        /\ ~self.env.main_thread => self.settings = {}
        /\ self.prepared

\* C27: off the main thread nothing is written and the base class is
\* called; on the main thread MODEL_LAYERS is written, and then either the
\* options are read and written and the base class is called, or reading
\* them raises QgsProcessingException (the energy pattern is not a list of
\* numbers), no options are written and the base class is not called.
C27_SavedOnMainThreadWhenReadable ==
    AfterPrepare =>
        /\ ~self.env.main_thread =>
              self.settings = {} /\ self.prepared /\ Returned(result)
        /\ self.env.main_thread /\ ~Fails("_get_model_options", self.env) =>
              self.settings = AllSettings /\ self.prepared /\ Returned(result)
        /\ self.env.main_thread /\ Fails("_get_model_options", self.env) =>
              /\ self.settings = {"MODEL_LAYERS"}
              /\ ~self.prepared
              /\ Raised(result)
              /\ result.exc = "QgsProcessingException"

\* on the main thread with the energy pattern "x": the layers are saved,
\* the options are not
C27_Witness ==
    /\ AfterPrepare
    /\ self.env.main_thread
    /\ self.env.energy_pattern = Str("x")
    /\ self.settings = {"MODEL_LAYERS"}
    /\ Raised(result)

(***************************************************************************)
(* The handler and the propagation of a logger                             *)
(***************************************************************************)
\* the handlers of the blocks that are open on a logger
OpenHandlers(n) ==
    {Blocks(c)[i].handler : <<c, i>> \in
        {ci \in Callers \X (1..MaxDepth) :
            ci[2] <= Len(Blocks(ci[1])) /\ Blocks(ci[1])[ci[2]].name = n}}

\* the block that was just left
Left == call.args[1]

\* C26: the handlers attached to a logger are those of the blocks open on
\* it, so a block's handler is attached exactly while the block is active;
\* when a block is left, by its end or by an exception, its handler is no
\* longer attached and the logger propagates.
C26_HandlerWhileActive ==
    LoggingCall =>
        /\ \A n \in LoggerNames : self.loggers[n].handlers = OpenHandlers(n)
        /\ call.op = "__exit__" =>
              /\ Left.handler \notin self.loggers[Left.name].handlers
              /\ self.loggers[Left.name].propagate

\* a block on wntr left by an exception
C26_Witness ==
    /\ call.op = "__exit__"
    /\ call.args[2]
    /\ Raised(result)
    /\ Left.name = "wntr"
    /\ self.loggers["wntr"] = getLogger

\* the blocks the caller of the block just left still has open on the same
\* logger
Outer ==
    {i \in DOMAIN Blocks(Left.handler.caller) :
        Blocks(Left.handler.caller)[i].name = Left.name}

\* C30: when a block is left the logger's propagate has the value it had
\* when the block was entered; after the inner of two nested blocks on one
\* logger is left, propagation is still disabled and the handler of the
\* outer block is still attached.
C30_RestoresPriorState ==
    call.op = "__exit__" =>
        /\ self.loggers[Left.name].propagate = Left.before
        /\ \A i \in Outer :
              /\ ~self.loggers[Left.name].propagate
              /\ Blocks(Left.handler.caller)[i].handler \in self.loggers[Left.name].handlers

\* the inner of two nested blocks on wntr has been left: the outer handler
\* is attached and the logger propagates
C30_Witness ==
    /\ call.op = "__exit__"
    /\ Left.name = "wntr"
    /\ ~Left.before
    /\ Outer # {}
    /\ self.loggers["wntr"].propagate
    /\ self.loggers["wntr"].handlers # {}

====
